---- MODULE Spec2Model ----
(***************************************************************************)
(* A model of the sandbox container pool of mcp-codemode                   *)
(* (src/pyrunner/core/sandbox.py), of the four sandbox tool handlers       *)
(* (src/pyrunner/tools/execute_code.py, src/pyrunner/tools/file_ops.py),   *)
(* of the path guard _safe_path and of the application lifespan            *)
(* (src/pyrunner/main.py).                                                 *)
(*                                                                         *)
(* The server is one asyncio event loop: a task runs without interruption  *)
(* from one suspending await to the next, so every action below is one     *)
(* such stretch of code.  Blocking docker calls run on executor threads;   *)
(* what they do inside a container outlives the awaiting task when that    *)
(* task times out or is cancelled.                                         *)
(***************************************************************************)
EXTENDS Integers, Sequences, FiniteSets, TLC

\* ---------------------------------------------------------------- bounds
\* Number of request tasks that can be in flight at once.
MaxCallers == 3
\* Longest caller-supplied path, in tokens, the path guard is run on.
MaxPathLen == 5
\* Requests in flight at once on the MCP surfaces.
MaxRequests == 2

\* ------------------------------------------------------ program constants
\* settings.pool_size, default of POOL_SIZE.
PoolSize == 2

Callers == 1..MaxCallers
\* Container handles, named by the iteration of start() that creates them.
Handles == 1..PoolSize
\* What a task that holds no container has in place of a handle.
NoHandle == CHOOSE c \in 0..PoolSize : c \notin Handles

VARIABLES
    client,      \* SandboxPool._client is set (TRUE) or None (FALSE)
    queue,       \* SandboxPool._queue: the items of the asyncio.Queue, head first
    getters,     \* the queue's pending getter futures, oldest first (their tasks)
    containers,  \* SandboxPool._containers
    life,        \* position of app_lifespan
    loopI,       \* index of the running loop of start() / shutdown()
    stage,       \* start(): which await of the iteration is pending
    cstate,      \* docker state of each container
    files,       \* content of /workspace/x in each container
    lingering,   \* a process of an abandoned exec is still alive in the container
    hs,          \* the request tasks: one record per caller
    dropped,     \* the step just taken cancelled a task: the await it was suspended at
    hist,        \* the call that ended last, if no call has overlapped it since it began
    guardIn,     \* path guard: the caller-supplied path
    guardOut,    \* path guard: what _safe_path did with it
    execIn,      \* exec_code: its arguments and what the container runtime does
    execOut,     \* exec_code: its result and what execute_code makes of it
    resetIn,     \* reset_workspace: the workspace it is given and what the runtime does
    resetOut,    \* reset_workspace: the workspace it leaves and its listing
    ctx,         \* _REQUEST_CONTEXT: its value in the context of each task
    reqs,        \* the HTTP requests in flight on the two MCP surfaces
    stray,       \* the last read of the request context made outside any request
    served,      \* the last MCP response a surface gave
    proxyIn,     \* API proxy: the request, the KV store, the settings, the upstream
    proxyOut,    \* API proxy: its lookups, the requests it sent and its response
    tokenIn,     \* resolve_graph_token: its arguments, the contexts, the environment
    tokenOut,    \* resolve_graph_token: what it returned or raised
    bindIn,      \* dispatch: the headers of the request
    bindOut,     \* dispatch: the mapping it bound
    agentIn,     \* run_agent: its flag and what the tool calls of each run returned
    agentOut,    \* run_agent: where it stands and the agents it has run
    pagesIn,     \* collect_paginated_values: its arguments and what the API answers
    pagesOut     \* collect_paginated_values: its loop variables and its requests

vars == <<client, queue, getters, containers, life, loopI, stage, cstate, files,
          lingering, hs, dropped, hist, guardIn, guardOut, execIn, execOut,
          resetIn, resetOut, ctx, reqs, stray, served, proxyIn, proxyOut,
          tokenIn, tokenOut, bindIn, bindOut, agentIn, agentOut, pagesIn,
          pagesOut>>

poolVars == <<client, queue, getters, containers, life, loopI, stage, cstate, files,
              lingering, hs, dropped, hist>>

\* What the pool and the handlers leave alone: the runs of the pure functions.
pureVars == <<guardIn, guardOut, execIn, execOut, resetIn, resetOut, ctx, reqs,
              stray, served, proxyIn, proxyOut, tokenIn, tokenOut, bindIn,
              bindOut, agentIn, agentOut, pagesIn, pagesOut>>

\* The MCP surfaces, the API proxy and the token resolution.
serverVars == <<ctx, reqs, stray, served>>
proxyVars == <<proxyIn, proxyOut>>
tokenVars == <<tokenIn, tokenOut>>
\* The binding of the middleware, the agent of the client, the pagination.
bindVars == <<bindIn, bindOut>>
agentVars == <<agentIn, agentOut>>
pagesVars == <<pagesIn, pagesOut>>
callVars == <<bindVars, agentVars, pagesVars>>
edgeVars == <<serverVars, proxyVars, tokenVars, callVars>>

\* ------------------------------------------------------------ path guard
\* A path is a sequence of tokens.  "/" and "." are the characters; the token
\* "workspace" stands for those nine characters and "x" for any other name
\* character, so a prefix of tokens is a prefix of characters.
PathTokens == {"/", ".", "workspace", "x"}

\* _WORKSPACE_ROOT = "/workspace"
WorkspaceRoot == <<"/", "workspace">>

\* str.startswith
StartsWith(s, pre) ==
    /\ Len(s) >= Len(pre)
    /\ SubSeq(s, 1, Len(pre)) = pre

\* str.split("/"): the components between the separators, empty ones kept.
RECURSIVE SplitAt(_, _, _)
SplitAt(s, i, cur) ==
    IF i > Len(s) THEN <<cur>>
    ELSE IF s[i] = "/" THEN <<cur>> \o SplitAt(s, i + 1, <<>>)
    ELSE SplitAt(s, i + 1, Append(cur, s[i]))

Split(s) == SplitAt(s, 1, <<>>)

\* "/".join(comps)
RECURSIVE JoinSlash(_)
JoinSlash(comps) ==
    IF comps = <<>> THEN <<>>
    ELSE IF Len(comps) = 1 THEN comps[1]
    ELSE comps[1] \o <<"/">> \o JoinSlash(Tail(comps))

\* posixpath.normpath: the loop over the components.
RECURSIVE NormComps(_, _, _)
NormComps(comps, slashes, new) ==
    IF comps = <<>> THEN new
    ELSE LET comp == Head(comps)
             rest == Tail(comps)
         IN  IF comp = <<>> \/ comp = <<".">>
             THEN NormComps(rest, slashes, new)
             ELSE IF \/ comp # <<".", ".">>
                     \/ (slashes = 0 /\ new = <<>>)
                     \/ (new # <<>> /\ new[Len(new)] = <<".", ".">>)
                  THEN NormComps(rest, slashes, Append(new, comp))
                  ELSE IF new # <<>>
                       THEN NormComps(rest, slashes, SubSeq(new, 1, Len(new) - 1))
                       ELSE NormComps(rest, slashes, new)

\* posixpath.normpath
normpath(path) ==
    IF path = <<>> THEN <<".">>
    ELSE LET slashes == IF ~StartsWith(path, <<"/">>) THEN 0
                        ELSE IF StartsWith(path, <<"/", "/">>)
                                /\ ~StartsWith(path, <<"/", "/", "/">>)
                             THEN 2 ELSE 1
             body == JoinSlash(NormComps(Split(path), slashes, <<>>))
             full == (IF slashes = 2 THEN <<"/", "/">>
                      ELSE IF slashes = 1 THEN <<"/">> ELSE <<>>) \o body
         IN  IF full = <<>> THEN <<".">> ELSE full

\* posixpath.join(a, b) for the one case the guard uses: b does not start with "/".
join(a, b) ==
    IF a = <<>> \/ a[Len(a)] = "/" THEN a \o b ELSE a \o <<"/">> \o b

\* The containment test of _safe_path on the normalized path.
Contained(resolved) == StartsWith(resolved, WorkspaceRoot)

\* _safe_path: [ok |-> FALSE] stands for the ValueError.
safe_path(path) ==
    LET resolved == IF ~StartsWith(path, <<"/">>)
                    THEN normpath(join(WorkspaceRoot, path))
                    ELSE normpath(path)
    IN  IF ~Contained(resolved)
        THEN [ok |-> FALSE, path |-> <<>>]
        ELSE [ok |-> TRUE, path |-> resolved]

\* ------------------------------------------------------------- the pool
Tools == {"execute_code", "sandbox_read_file", "sandbox_write_file",
          "sandbox_list_files"}
FileTools == Tools \ {"execute_code"}

\* The keys of LANGUAGE_COMMANDS.
LANGUAGE_COMMANDS == {"python", "bash", "sh", "node", "javascript"}
\* Language tags a call is made with: one supported, one not.
Langs == {"python", "ruby"}
\* str.lower on the tags a call is made with.
lower(tag) ==
    IF tag = "Python" THEN "python" ELSE IF tag = "Bearer " THEN "bearer " ELSE tag
\* exec_code: language.lower() is a key of LANGUAGE_COMMANDS.
Supported(lang) == lower(lang) \in LANGUAGE_COMMANDS

\* File contents a call writes.
Contents == {"hi"}
\* The workspace of a container holds one file, at a path, or none.
NoFile == [at |-> <<>>, data |-> "-"]

\* Paths the file tools are called with: notes "x" under the workspace, "." the
\* workspace itself, and "/x" outside it.
ToolPaths == {<<"x">>, <<".">>, <<"/", "x">>}

\* The resolved paths the pool's file operations are called with.
Resolved == {safe_path(p).path : p \in {q \in ToolPaths : safe_path(q).ok}}

\* str.rfind("/") + 1
RECURSIVE AfterLastSlash(_, _)
AfterLastSlash(p, i) ==
    IF i = 0 THEN 0 ELSE IF p[i] = "/" THEN i ELSE AfterLastSlash(p, i - 1)

\* str.rstrip("/")
RECURSIVE RStripSlash(_)
RStripSlash(s) ==
    IF s # <<>> /\ s[Len(s)] = "/" THEN RStripSlash(SubSeq(s, 1, Len(s) - 1)) ELSE s

\* posixpath.dirname
dirname(p) ==
    LET head == SubSeq(p, 1, AfterLastSlash(p, Len(p)))
    IN  IF head # <<>> /\ RStripSlash(head) # <<>> THEN RStripSlash(head) ELSE head

\* posixpath.basename
basename(p) == SubSeq(p, AfterLastSlash(p, Len(p)) + 1, Len(p))

\* put_archive, had file_write always unpacked the archive at "/".
put_archive_at_root(parent, name, content) ==
    [at |-> join(<<"/">>, name), data |-> content]

\* container.put_archive(parent, tar) with a tar of one member `name`: docker
\* unpacks the member in the directory parent.
put_archive(parent, name, content) == [at |-> join(parent, name), data |-> content]

\* SandboxPool.file_write: the workspaces after the write to container c.
file_write(fs, c, path, content) ==
    LET parent == dirname(path)
        filename == basename(path)
    IN  [fs EXCEPT ![c] = put_archive(IF parent # <<>> THEN parent ELSE <<"/">>,
                                      filename, content)]

\* container.get_archive(path) in SandboxPool.file_read, and ls -la path in
\* SandboxPool.file_list: whether the path exists in the container.
Exists(fs, c, path) == fs[c] # NoFile /\ fs[c].at = path

\* SandboxPool.file_read: the bytes of the first member of the archive.
file_read(fs, c, path) == fs[c].data

\* The directory of a container the file tools reach: the workspace, the
\* working directory of the image.
IsDirectory(path) == path = WorkspaceRoot

\* The paths sandbox_write_file is called with: those of files.
WritePaths == {p \in Resolved : ~IsDirectory(p)}

\* file_read._read, had it returned what the member of the archive holds.
read_member(tool, fs, c, path) ==
    IF IsDirectory(path) \/ Exists(fs, c, path) THEN "-" ELSE "not found"

\* file_read._read and file_list: the exception the operation raises, "-" for
\* none.  get_archive raises NotFound (FileNotFoundError) for a path that is
\* absent; extractfile gives None for the member of a directory
\* (IsADirectoryError); ls -la lists a directory and fails on an absent path.
read_raises(tool, fs, c, path) ==
    IF IsDirectory(path)
    THEN IF tool = "sandbox_read_file" THEN "is a directory" ELSE "-"
    ELSE IF Exists(fs, c, path) THEN "-" ELSE "not found"

\* A request task that is not handling a call.
Idle == [pc |-> "none", tool |-> "-", held |-> NoHandle, solo |-> FALSE]

\* The tasks in flight other than h.
Others(h) == {o \in Callers \ {h} : hs[o].pc # "none"}

\* The tasks, with those in flight marked as overlapped by a call that starts.
Overlapped(h) ==
    [x \in Callers |-> IF x \in Others(h) THEN [hs[x] EXCEPT !.solo = FALSE]
                       ELSE hs[x]]

\* The record of the call that ended last, when no other call overlapped it.
Logged(hb, solo, entry) == IF solo THEN <<entry>> ELSE <<>>

Entry(tool, outcome, data) == [tool |-> tool, outcome |-> outcome, data |-> data]

\* get_nowait, had it read the head without removing it.
get_peek(q) == [item |-> Head(q), rest |-> q]

\* get_nowait, had the queue been a stack: the item put last is taken.
get_newest(q) == [item |-> q[Len(q)], rest |-> SubSeq(q, 1, Len(q) - 1)]

\* asyncio.Queue.get_nowait: the item taken and the items left.
get_nowait(q) == [item |-> Head(q), rest |-> Tail(q)]

\* release, had it dropped the handle instead of putting it back.
release_lost(q, c) == q

\* release, had it put the handle at the head of the queue.
release_at_head(q, c) == <<c>> \o q

\* release, had it put the handle back twice.
release_twice(q, c) == Append(Append(q, c), c)

\* SandboxPool.release: asyncio.Queue.put on an unbounded queue appends.
release(q, c) == Append(q, c)

\* The handlers, had they released in an except Exception clause: the
\* CancelledError of a dropped request is no Exception.
release_unless_cancelled(q, c, outcome) ==
    IF outcome = "cancelled" THEN q ELSE release(q, c)

\* The handlers, had they released on the normal path only.
release_unless_raised(q, c, outcome) ==
    IF outcome = "raised" THEN q ELSE release(q, c)

\* The finally clause of a handler: release whatever the outcome.
finally_release(q, c, outcome) == release(q, c)

\* start(), had it assigned the list instead of appending to it.
owned_assign(cs, c) == <<c>>

\* start(): self._containers.append(container)
owned_append(cs, c) == Append(cs, c)

\* _wakeup_next, had it dropped the getter without setting its future.
wake_nobody(g) == {}

\* asyncio.Queue._wakeup_next: the first pending getter is woken and leaves
\* the deque.  A cancelled getter is dropped from the deque when its task is
\* cancelled, so every getter in the deque is pending.
WakeTarget(g) == IF g = <<>> THEN {} ELSE {Head(g)}
AfterWake(g) == IF g = <<>> THEN g ELSE Tail(g)
Wake(base, g) ==
    [x \in Callers |-> IF x \in WakeTarget(g) THEN [base[x] EXCEPT !.pc = "woken"]
                       ELSE base[x]]

Without(g, h) == SelectSeq(g, LAMBDA x : x # h)

\* A process left behind in container c stays alive unless the container is gone.
Linger(c, alive) ==
    IF cstate[c] = "removed" THEN lingering
    ELSE [lingering EXCEPT ![c] = @ \/ alive]

NotRun == [ok |-> FALSE, path |-> <<>>, ran |-> FALSE]

\* exec_code has not been given anything to run.
NoExecIn == [language |-> "-", timeout |-> [given |-> FALSE, secs |-> 0],
             outcome |-> "-", exit_code |-> 0, stdout |-> <<>>, stderr |-> <<>>]
NoExecOut == [ran |-> FALSE]

\* reset_workspace has not been called.
NoResetIn == [entries |-> {}, outcome |-> "-", stuck |-> {}]
NoResetOut == [ran |-> FALSE]

\* ---------------------------------------------------------- nothing yet
\* Python's None, and the truth value of a str or None.
None == "None"
Truthy(v) == v \notin {None, ""}
\* a or b
Or(a, b) == IF Truthy(a) THEN a ELSE b

\* The tasks: 0 is the server outside any request, r the task that runs
\* dispatch for request r, MaxRequests + r the task call_next runs the
\* downstream app of request r in.
Requests == 1..MaxRequests
Down(r) == MaxRequests + r
Tasks == 0..(MaxRequests + MaxRequests)

\* _REQUEST_CONTEXT: default None, or the mapping a set() bound.
Unset == [none |-> TRUE, map |-> {}]
Bound(m) == [none |-> FALSE, map |-> m]

NoHeaders == [x_microsoft_graph_token |-> None, x_graph_token |-> None,
              authorization |-> <<>>, x_github_username |-> None,
              x_request_id |-> None]
IdleReq == [pc |-> "none", headers |-> NoHeaders, surface |-> "-",
            token |-> Unset, read |-> FALSE, seen |-> {}, outcome |-> "-"]
NoStray == [ran |-> FALSE, after |-> "-", value |-> {}]
NoServed == [surface |-> "-", method |-> "-", name |-> "-", tools |-> {},
             found |-> FALSE]

\* No request has reached the server.
NoRequests ==
    /\ ctx = [t \in Tasks |-> Unset]
    /\ reqs = [r \in Requests |-> IdleReq]
    /\ stray = NoStray
    /\ served = NoServed

\* The proxy has not been called.
NoProxyRun == proxyIn = [route |-> "-"] /\ proxyOut = [ran |-> FALSE]

\* resolve_graph_token has not been called.
NoTokenRun == tokenIn = [token |-> None] /\ tokenOut = [ran |-> FALSE]

\* dispatch has bound nothing, run_agent and collect_paginated_values have not
\* been called.
NoBinding == bindIn = NoHeaders /\ bindOut = [ran |-> FALSE]
NoAgentRun == agentIn = [use_code_exec_agent |-> FALSE] /\ agentOut = [pc |-> "-"]
NoPages == pagesIn = [params |-> None] /\ pagesOut = [pc |-> "-"]

Init ==
    /\ client = FALSE
    /\ queue = <<>>
    /\ getters = <<>>
    /\ containers = <<>>
    /\ life = "new"
    /\ loopI = 0
    /\ stage = "-"
    /\ cstate = [c \in Handles |-> "absent"]
    /\ files = [c \in Handles |-> NoFile]
    /\ lingering = [c \in Handles |-> FALSE]
    /\ hs = [h \in Callers |-> Idle]
    /\ dropped = "none"
    /\ hist = <<>>
    /\ guardIn = <<>>
    /\ guardOut = NotRun
    /\ execIn = NoExecIn
    /\ execOut = NoExecOut
    /\ resetIn = NoResetIn
    /\ resetOut = NoResetOut
    /\ NoRequests
    /\ NoBinding
    /\ NoAgentRun
    /\ NoPages
    /\ NoProxyRun
    /\ NoTokenRun

\* ----------------------------------------------------- start / shutdown
\* start(), had it put the container in the queue as soon as it was created.
start_put_early(at, q, c) == IF at = "create" THEN Append(q, c) ELSE q

\* start(): the container of an iteration is put in the queue after the mkdir
\* exec of that iteration returned, not when containers.run returned.
start_put(at, q, c) == IF at = "ensure" THEN Append(q, c) ELSE q

\* app_lifespan calls pool.start(): the client is made and the image is
\* looked up, and pulled when absent.  The pull can fail.
StartCall(ok) ==
    /\ life = "new"
    /\ client' = TRUE
    /\ dropped' = "none"
    /\ IF ~ok THEN /\ life' = "failed"
                   /\ UNCHANGED <<loopI, stage>>
       ELSE IF PoolSize = 0 THEN /\ life' = "running"
                                 /\ UNCHANGED <<loopI, stage>>
       ELSE /\ life' = "starting"
            /\ loopI' = 1
            /\ stage' = "create"
    /\ UNCHANGED <<queue, getters, containers, cstate, files, lingering, hs, hist,
                   pureVars>>

\* start(): containers.run of iteration loopI returns or raises.
StartCreate(ok) ==
    /\ life = "starting"
    /\ stage = "create"
    /\ dropped' = "none"
    /\ IF ok THEN /\ cstate' = [cstate EXCEPT ![loopI] = "created"]
                  /\ stage' = "ensure"
                  /\ life' = life
       ELSE /\ life' = "failed"
            /\ UNCHANGED <<cstate, stage>>
    /\ queue' = IF ok THEN start_put("create", queue, loopI) ELSE queue
    /\ UNCHANGED <<client, getters, containers, loopI, files, lingering,
                   hs, hist, pureVars>>

\* start(): the mkdir exec of iteration loopI returns or raises; on return the
\* container is appended to _containers and put in the queue, and the loop goes on.
StartEnsure(ok) ==
    /\ life = "starting"
    /\ stage = "ensure"
    /\ dropped' = "none"
    /\ IF ok
       THEN /\ cstate' = [cstate EXCEPT ![loopI] = "ready"]
            /\ containers' = owned_append(containers, loopI)
            /\ queue' = start_put("ensure", queue, loopI)
            /\ IF loopI = PoolSize
               THEN /\ life' = "running"
                    /\ UNCHANGED <<loopI, stage>>
               ELSE /\ loopI' = loopI + 1
                    /\ stage' = "create"
                    /\ life' = life
       ELSE /\ life' = "failed"
            /\ UNCHANGED <<cstate, containers, queue, loopI, stage>>
    /\ UNCHANGED <<client, getters, files, lingering, hs, hist, pureVars>>

\* shutdown(), had it let the exception of a failed removal leave the loop.
remove_raises(ok, last) ==
    IF ~ok THEN "failed" ELSE IF last THEN "stopped" ELSE "stopping"

\* shutdown(): where it stands after the removal of one container; the
\* exception of a failed removal is logged and the loop goes on.
remove_logged(ok, last) == IF last THEN "stopped" ELSE "stopping"

\* app_lifespan calls pool.shutdown() when the server stops: the removal of the
\* first container is handed to the executor.  The pool does not wait for the
\* tasks that hold a container.
ShutdownCall ==
    /\ life = "running"
    /\ life' = "stopping"
    /\ dropped' = "none"
    /\ loopI' = 1
    /\ hist' = <<>>
    /\ UNCHANGED <<client, queue, getters, containers, stage, cstate, files,
                   lingering, hs, pureVars>>

\* shutdown(): the removal of container loopI returned or raised (logged); after
\* the last one the owned list is cleared, the queue drained, the client closed.
ShutdownStep(ok) ==
    /\ life = "stopping"
    /\ dropped' = "none"
    /\ LET c == containers[loopI]
       IN  /\ cstate' = IF ok THEN [cstate EXCEPT ![c] = "removed"] ELSE cstate
           /\ files' = IF ok THEN [files EXCEPT ![c] = NoFile] ELSE files
           /\ lingering' = IF ok THEN [lingering EXCEPT ![c] = FALSE] ELSE lingering
    /\ life' = remove_logged(ok, loopI = Len(containers))
    /\ IF loopI < Len(containers)
       THEN /\ loopI' = loopI + 1
            /\ UNCHANGED <<client, queue, containers>>
       ELSE /\ containers' = <<>>
            /\ queue' = <<>>
            /\ client' = FALSE
            /\ loopI' = loopI
    /\ UNCHANGED <<getters, stage, hs, hist, pureVars>>

\* --------------------------------------------------------- tool handlers
\* What the handlers leave alone.
lifeVars == <<client, containers, life, loopI, stage, cstate>>
guardVars == <<guardIn, guardOut>>
execVars == <<execIn, execOut>>
resetVars == <<resetIn, resetOut>>

\* What a handler does from the return of pool.acquire() to its next
\* suspension.  rec is the call, base the tasks and hb the call record to
\* start from.  An argument of the call is drawn where the code first reads
\* it: the language here.  exec_code with an unsupported language returns
\* without an await, so the finally clause releases the container in the same
\* stretch.  The three file handlers are the same code but for the pool
\* operation they await, so a call to one of them is tool "file" until that
\* operation acts on the container (FileOpDone).
Begin(h, rec, base, hb) ==
    LET got == get_nowait(queue)
    IN  \/ /\ rec.tool = "execute_code"
           /\ \E lang \in Langs :
                 IF ~Supported(lang)
                 THEN /\ queue' = finally_release(got.rest, got.item, "returned")
                      /\ getters' = AfterWake(getters)
                      /\ hs' = Wake([base EXCEPT ![h] = Idle], getters)
                      /\ hist' = Logged(hb, rec.solo, Entry(rec.tool, "returned", "1"))
                 ELSE /\ queue' = got.rest
                      /\ getters' = getters
                      /\ hs' = [base EXCEPT ![h] =
                                  [rec EXCEPT !.pc = "exec", !.held = got.item]]
                      /\ hist' = hb
        \/ /\ rec.tool # "execute_code"
           /\ queue' = got.rest
           /\ getters' = getters
           /\ hs' = [base EXCEPT ![h] =
                       [rec EXCEPT !.pc = "fileop", !.held = got.item]]
           /\ hist' = hb

\* pool.acquire() found the queue empty: asyncio.Queue.get appends a getter
\* future and the task suspends on it.
Wait(h, rec, base, hb) ==
    /\ getters' = Append(getters, h)
    /\ hs' = [base EXCEPT ![h] = [rec EXCEPT !.pc = "waiting"]]
    /\ hist' = hb
    /\ queue' = queue

\* pool.acquire()
acquire(h, rec, base, hb) ==
    IF queue # <<>> THEN Begin(h, rec, base, hb) ELSE Wait(h, rec, base, hb)

\* A request calls the execute_code tool.
ExecuteCode(h) ==
    /\ life = "running"
    /\ hs[h].pc = "none"
    /\ LET solo == Others(h) = {}
       IN  acquire(h, [Idle EXCEPT !.tool = "execute_code", !.solo = solo],
                   Overlapped(h), IF solo THEN hist ELSE <<>>)
    /\ dropped' = "none"
    /\ UNCHANGED <<lifeVars, files, lingering, pureVars>>

\* sandbox_*_file, had it called pool.acquire() before _safe_path: the
\* ValueError leaves the handler outside its try, with the handle it took.
rejected_after_acquire(q) == IF q # <<>> THEN Tail(q) ELSE q

\* sandbox_*_file: the idle queue after a call whose path _safe_path rejects.
\* The ValueError is raised on the line before pool.acquire().
rejected_before_acquire(q) == q

\* A request calls sandbox_read_file, sandbox_write_file or sandbox_list_files:
\* _safe_path runs first and its ValueError ends the call before acquire().
\* The rejected call has no await: no other call's step falls inside it.
FileTool(h) ==
    /\ life = "running"
    /\ hs[h].pc = "none"
    /\ \E path \in ToolPaths :
          LET solo == Others(h) = {}
              hb == IF solo THEN hist ELSE <<>>
          IN  IF ~safe_path(path).ok
              THEN /\ hs' = Overlapped(h)
                   /\ \E tool \in FileTools :
                         hist' = <<Entry(tool, "raised", "traversal")>>
                   /\ queue' = rejected_before_acquire(queue)
                   /\ UNCHANGED getters
              ELSE acquire(h, [Idle EXCEPT !.tool = "file", !.solo = solo],
                           Overlapped(h), hb)
    /\ dropped' = "none"
    /\ UNCHANGED <<lifeVars, files, lingering, pureVars>>

\* A task whose getter future was set by a put runs again: asyncio.Queue.get
\* tests the queue again, and waits anew when another task took the item.
Woken(h) ==
    /\ hs[h].pc = "woken"
    /\ acquire(h, hs[h], hs, hist)
    /\ dropped' = "none"
    /\ UNCHANGED <<lifeVars, files, lingering, pureVars>>

\* The end of a call that holds a container: the finally clause releases
\* it, the put wakes the first pending getter, and the handler returns or the
\* exception leaves it.
ExitHolding(h, outcome, data) ==
    /\ queue' = finally_release(queue, hs[h].held, outcome)
    /\ getters' = AfterWake(getters)
    /\ hs' = Wake([hs EXCEPT ![h] = Idle], getters)
    /\ hist' = Logged(hist, hs[h].solo, Entry(hs[h].tool, outcome, data))

\* exec_code: the run inside the container ended within the timeout.
ExecDone(h, code) ==
    /\ hs[h].pc = "exec"
    /\ ExitHolding(h, "returned", code)
    /\ dropped' = "none"
    /\ UNCHANGED <<lifeVars, files, lingering, pureVars>>

\* exec_code: the exec call raised (the runtime is unreachable, the container
\* is gone); no except clause matches, so the exception leaves the handler.
ExecRaise(h) ==
    /\ hs[h].pc = "exec"
    /\ ExitHolding(h, "raised", "docker")
    /\ dropped' = "none"
    /\ UNCHANGED <<lifeVars, files, lingering, pureVars>>

\* exec_code: wait_for timed out; the executor thread and the run go on, and
\* the task awaits the pkill exec.
ExecTimeout(h) ==
    /\ hs[h].pc = "exec"
    /\ hs' = [hs EXCEPT ![h].pc = "kill"]
    /\ dropped' = "none"
    /\ UNCHANGED <<lifeVars, queue, getters, files, lingering, hist, pureVars>>

\* exec_code: the pkill exec returned or raised (swallowed).  It is best
\* effort: the run it was meant to end may be alive still.
KillDone(h, killed) ==
    /\ hs[h].pc = "kill"
    /\ lingering' = Linger(hs[h].held, ~killed)
    /\ ExitHolding(h, "returned", "-1")
    /\ dropped' = "none"
    /\ UNCHANGED <<lifeVars, files, pureVars>>

\* file_read / file_write / file_list: the executor call returned or raised.
\* ExitAs is ExitHolding for the file handler that made the call.
ExitAs(h, tool, outcome, data) ==
    /\ queue' = finally_release(queue, hs[h].held, outcome)
    /\ getters' = AfterWake(getters)
    /\ hs' = Wake([hs EXCEPT ![h] = Idle], getters)
    /\ hist' = Logged(hist, hs[h].solo, Entry(tool, outcome, data))

FileOpDone(h) ==
    /\ hs[h].pc = "fileop"
    /\ \E tool \in FileTools, content \in Contents, path \in Resolved :
          LET c == hs[h].held
          IN  /\ tool = "sandbox_write_file" => path \in WritePaths
              /\ IF cstate[c] = "removed"
                 THEN /\ ExitAs(h, tool, "raised", "docker")
                      /\ files' = files
                 ELSE IF tool = "sandbox_write_file"
                 THEN /\ files' = file_write(files, c, path, content)
                      /\ ExitAs(h, tool, "returned", content)
                 ELSE IF read_raises(tool, files, c, path) # "-"
                 THEN /\ ExitAs(h, tool, "raised", read_raises(tool, files, c, path))
                      /\ files' = files
                 ELSE /\ ExitAs(h, tool, "returned",
                                IF tool = "sandbox_read_file"
                                THEN file_read(files, c, path)
                                ELSE "listing")
                      /\ files' = files
    /\ dropped' = "none"
    /\ UNCHANGED <<lifeVars, lingering, pureVars>>

\* The request is dropped and its task cancelled; CancelledError is raised at
\* the await the task is suspended on.
\*  - waiting: get() removes its getter and re-raises;
\*  - woken: the getter was set already; get() wakes the next getter when the
\*    queue is not empty, and re-raises;
\*  - exec, kill: the exception leaves exec_code and the finally clause
\*    releases; the executor thread is not stopped, so the run may go on;
\*  - fileop: likewise, and the write of the thread may or may not land.
Cancel(h, goesOn) ==
    /\ hs[h].pc \in {"waiting", "woken", "exec", "kill", "fileop"}
    /\ dropped' = hs[h].pc
    /\ IF hs[h].pc = "waiting"
       THEN /\ getters' = Without(getters, h)
            /\ hs' = [hs EXCEPT ![h] = Idle]
            /\ hist' = Logged(hist, hs[h].solo, Entry(hs[h].tool, "cancelled", "-"))
            /\ goesOn = FALSE
            /\ UNCHANGED <<queue, files, lingering>>
       ELSE IF hs[h].pc = "woken"
       THEN /\ getters' = IF queue # <<>> THEN AfterWake(getters) ELSE getters
            /\ hs' = IF queue # <<>> THEN Wake([hs EXCEPT ![h] = Idle], getters)
                     ELSE [hs EXCEPT ![h] = Idle]
            /\ hist' = Logged(hist, hs[h].solo, Entry(hs[h].tool, "cancelled", "-"))
            /\ goesOn = FALSE
            /\ UNCHANGED <<queue, files, lingering>>
       ELSE IF hs[h].pc = "fileop"
       THEN /\ \E tool \in FileTools, content \in Contents, path \in WritePaths :
                  /\ files' = IF /\ goesOn
                                 /\ tool = "sandbox_write_file"
                                 /\ cstate[hs[h].held] # "removed"
                              THEN file_write(files, hs[h].held, path, content)
                              ELSE files
                  /\ ExitAs(h, tool, "cancelled", "-")
            /\ UNCHANGED lingering
       ELSE /\ lingering' = Linger(hs[h].held, goesOn)
            /\ ExitHolding(h, "cancelled", "-")
            /\ UNCHANGED files
    /\ UNCHANGED <<lifeVars, pureVars>>

\* The process an abandoned exec left in container c ends by itself.
LingerEnds(c) ==
    /\ lingering[c]
    /\ lingering' = [lingering EXCEPT ![c] = FALSE]
    /\ dropped' = "none"
    /\ UNCHANGED <<lifeVars, queue, getters, files, hs, hist, pureVars>>

Next ==
    \/ \E ok \in BOOLEAN : StartCall(ok)
    \/ \E ok \in BOOLEAN : StartCreate(ok)
    \/ \E ok \in BOOLEAN : StartEnsure(ok)
    \/ ShutdownCall
    \/ \E ok \in BOOLEAN : ShutdownStep(ok)
    \/ \E h \in Callers : ExecuteCode(h)
    \/ \E h \in Callers : FileTool(h)
    \/ \E h \in Callers : Woken(h)
    \/ \E h \in Callers, code \in {"0", "1"} : ExecDone(h, code)
    \/ \E h \in Callers : ExecRaise(h)
    \/ \E h \in Callers : ExecTimeout(h)
    \/ \E h \in Callers, killed \in BOOLEAN : KillDone(h, killed)
    \/ \E h \in Callers : FileOpDone(h)
    \/ \E h \in Callers, goesOn \in BOOLEAN : Cancel(h, goesOn)
    \/ \E c \in Handles : LingerEnds(c)

Spec == Init /\ [][Next]_vars

\* ------------------------------------------------- the event loop is fair
\* The step a request task takes when the await it is suspended on completes.
\* The event loop runs every ready task, an exec ends or times out
\* (asyncio.wait_for), and the executor calls of the kill and of the file
\* operations return or raise.  Nothing makes a request arrive, a request be
\* dropped or the server stop.
TaskStep(h) ==
    \/ Woken(h)
    \/ \E code \in {"0", "1"} : ExecDone(h, code)
    \/ ExecRaise(h)
    \/ ExecTimeout(h)
    \/ \E killed \in BOOLEAN : KillDone(h, killed)
    \/ FileOpDone(h)

\* The executor call of a removal in shutdown() returns or raises.
SpecFair ==
    /\ Spec
    /\ \A h \in Callers : WF_vars(TaskStep(h))
    /\ WF_vars(\E ok \in BOOLEAN : ShutdownStep(ok))

\* ------------------------------------------------ exec_code on its own
\* settings.exec_timeout, default of EXEC_TIMEOUT.
exec_timeout == 30
\* settings.max_output_size (MAX_OUTPUT_SIZE), here a cap of a few characters.
max_output_size == 2

\* The bytes of an output stream: "a" is an ASCII byte, "C3" "A9" are the two
\* bytes of the UTF-8 encoding of U+00E9.
Bytes == {"a", "C3", "A9"}
RawOutputs == UNION {[1..n -> Bytes] : n \in 0..(max_output_size + 1)}

\* bytes.decode("utf-8", errors="replace"): a byte that is no part of a valid
\* sequence becomes U+FFFD.
RECURSIVE decode(_)
decode(b) ==
    IF b = <<>> THEN <<>>
    ELSE IF b[1] = "a" THEN <<"a">> \o decode(Tail(b))
    ELSE IF b[1] = "C3" /\ Len(b) >= 2 /\ b[2] = "A9"
         THEN <<"U+00E9">> \o decode(SubSeq(b, 3, Len(b)))
         ELSE <<"U+FFFD">> \o decode(Tail(b))

\* "\n... [output truncated]"
Marker == <<"\n", "... [output truncated]">>

\* exec_code, had it clipped output that is exactly at the cap.
clip_at_cap(text) ==
    IF Len(text) >= max_output_size
    THEN [text |-> SubSeq(text, 1, max_output_size) \o Marker, clipped |-> TRUE]
    ELSE [text |-> text, clipped |-> FALSE]

\* exec_code: the clipping of one decoded stream.
clip(text) ==
    IF Len(text) > max_output_size
    THEN [text |-> SubSeq(text, 1, max_output_size) \o Marker, clipped |-> TRUE]
    ELSE [text |-> text, clipped |-> FALSE]

\* exec_code: the timeout in force.
timeout_in_force(timeout) == IF ~timeout.given THEN exec_timeout ELSE timeout.secs

\* exec_code, had it run the code whatever the language tag.
unsupported_runs(language) ==
    [raised |-> FALSE, ops |-> <<"exec_run">>,
     result |-> [stdout |-> <<>>, stderr |-> <<>>, exit_code |-> 0,
                 truncated |-> FALSE]]

\* exec_code: no key of LANGUAGE_COMMANDS for the tag.
unsupported(language) ==
    [raised |-> FALSE, ops |-> <<>>,
     result |-> [stdout |-> <<>>,
                 stderr |-> <<"Unsupported language: ", language, ". Supported: ",
                              "python, bash, sh, node, javascript">>,
                 exit_code |-> 1, truncated |-> FALSE]]

\* exec_code, had it reported a timeout as an ordinary failure.
timed_out_as_failure(timeout) ==
    [raised |-> FALSE, ops |-> <<"exec_run", "pkill">>,
     result |-> [stdout |-> <<>>,
                 stderr |-> <<"Execution timed out after ", ToString(timeout),
                              " seconds">>,
                 exit_code |-> 1, truncated |-> FALSE]]

\* exec_code: except asyncio.TimeoutError.
timed_out(timeout) ==
    [raised |-> FALSE, ops |-> <<"exec_run", "pkill">>,
     result |-> [stdout |-> <<>>,
                 stderr |-> <<"Execution timed out after ", ToString(timeout),
                              " seconds">>,
                 exit_code |-> -1, truncated |-> FALSE]]

NoResult == [stdout |-> <<>>, stderr |-> <<>>, exit_code |-> 0, truncated |-> FALSE]

\* exec_code: a is its arguments and what the runtime does with the exec.
exec_code(a) ==
    IF ~Supported(a.language) THEN unsupported(a.language)
    ELSE IF a.outcome = "raised"
    THEN [raised |-> TRUE, ops |-> <<"exec_run">>, result |-> NoResult]
    ELSE IF a.outcome = "timeout" THEN timed_out(timeout_in_force(a.timeout))
    ELSE LET out == clip(decode(a.stdout))
             err == clip(decode(a.stderr))
         IN  [raised |-> FALSE, ops |-> <<"exec_run">>,
              result |-> [stdout |-> out.text, stderr |-> err.text,
                          exit_code |-> a.exit_code,
                          truncated |-> out.clipped \/ err.clipped]]

\* execute_code, had it appended the section of an empty stream too.
response_with_empty_sections(result) ==
    <<[tag |-> "[stdout]", body |-> result.stdout],
      [tag |-> "[stderr]", body |-> result.stderr],
      [tag |-> "[exit_code]", body |-> <<ToString(result.exit_code)>>]>>
    \o (IF result.truncated
        THEN <<[tag |-> "[note]",
                body |-> <<"Output was truncated due to size limits.">>]>>
        ELSE <<>>)

\* execute_code: the sections of the response, in order.
response(result) ==
    (IF result.stdout # <<>> THEN <<[tag |-> "[stdout]", body |-> result.stdout]>>
     ELSE <<>>)
    \o (IF result.stderr # <<>> THEN <<[tag |-> "[stderr]", body |-> result.stderr]>>
        ELSE <<>>)
    \o <<[tag |-> "[exit_code]", body |-> <<ToString(result.exit_code)>>]>>
    \o (IF result.truncated
        THEN <<[tag |-> "[note]",
                body |-> <<"Output was truncated due to size limits.">>]>>
        ELSE <<>>)

\* execute_code: one part of the response as text, "[stdout]\n..." or
\* "[exit_code] N".
part(section) ==
    <<section.tag>>
    \o (IF section.tag \in {"[stdout]", "[stderr]"} THEN <<"\n">> ELSE <<" ">>)
    \o section.body

\* "\n".join(parts)
RECURSIVE join_parts(_)
join_parts(parts) ==
    IF parts = <<>> THEN <<>>
    ELSE IF Len(parts) = 1 THEN part(parts[1])
    ELSE part(parts[1]) \o <<"\n">> \o join_parts(Tail(parts))

\* str.lstrip()
RECURSIVE lstrip(_)
lstrip(text) ==
    IF text # <<>> /\ text[1] \in {" ", "\n"} THEN lstrip(Tail(text)) ELSE text

\* str.startswith(prefix), for a prefix that is one word: no piece of text
\* of the model spells a longer word that begins with one of the prefixes.
startswith(text, prefix) == text # <<>> /\ text[1] = prefix

\* extract_tool_calls: is_error of a ToolReturnPart with this content; flagged
\* is what getattr(part, "is_error", False) gives.
is_error(flagged, content) ==
    flagged \/ \E prefix \in {"Error", "error", "Traceback", "Exception"} :
                  startswith(lstrip(content), prefix)

\* Language tags, timeouts, exit codes exec_code is run with.
LangTags == {"python", "Python", "ruby"}
Timeouts == {[given |-> FALSE, secs |-> 0], [given |-> TRUE, secs |-> 5]}
ExitCodes == {0, 1, 255}

\* Every pair of output streams with one call that finishes, and every kind
\* of call with every way the exec can end.
ExecInputs ==
    {[language |-> "python", timeout |-> [given |-> FALSE, secs |-> 0],
      outcome |-> "finished", exit_code |-> e, stdout |-> o, stderr |-> r] :
        e \in {0, 1}, o \in RawOutputs, r \in RawOutputs}
    \cup
    {[language |-> l, timeout |-> t, outcome |-> w, exit_code |-> e,
      stdout |-> <<>>, stderr |-> <<>>] :
        l \in LangTags, t \in Timeouts, w \in {"finished", "timeout", "raised"},
        e \in ExitCodes}

InitExec ==
    /\ client = FALSE
    /\ queue = <<>>
    /\ getters = <<>>
    /\ containers = <<>>
    /\ life = "new"
    /\ loopI = 0
    /\ stage = "-"
    /\ cstate = [c \in Handles |-> "absent"]
    /\ files = [c \in Handles |-> NoFile]
    /\ lingering = [c \in Handles |-> FALSE]
    /\ hs = [h \in Callers |-> Idle]
    /\ dropped = "none"
    /\ hist = <<>>
    /\ guardIn = <<>>
    /\ guardOut = NotRun
    /\ execIn \in ExecInputs
    /\ execOut = NoExecOut
    /\ resetIn = NoResetIn
    /\ resetOut = NoResetOut
    /\ NoRequests
    /\ NoBinding
    /\ NoAgentRun
    /\ NoPages
    /\ NoProxyRun
    /\ NoTokenRun

\* execute_code runs exec_code on the container it holds and formats the
\* result; an exception of exec_code leaves the handler.  The client's
\* extract_tool_calls then reads the text the handler returned: the tool
\* returned normally, so the part carries no error flag of its own.
Exec ==
    /\ ~execOut.ran
    /\ LET r == exec_code(execIn)
       IN  execOut' = [ran |-> TRUE, raised |-> r.raised, ops |-> r.ops,
                       result |-> r.result,
                       response |-> IF r.raised THEN <<>> ELSE response(r.result),
                       is_error |-> /\ ~r.raised
                                    /\ is_error(FALSE, join_parts(response(r.result)))]
    /\ UNCHANGED <<execIn, poolVars, guardVars, resetVars, edgeVars>>

SpecExec == InitExec /\ [][Exec]_vars

\* ------------------------------------------ reset_workspace on its own
\* The names of the entries of /workspace: two plain ones and a hidden one.
Names == {<<"a">>, <<"b">>, <<".", "h">>}
Dot == <<".">>
DotDot == <<".", ".">>

\* sh: the operands /workspace/* expands to.
glob_star(entries) == {e \in entries : e[1] # "."}

\* sh: the operands /workspace/.* expands to; "." and ".." match as well.
glob_dotstar(entries) == {e \in entries : e[1] = "."} \cup {Dot, DotDot}

\* reset_workspace, had its command been rm -rf /workspace/*.
operands_plain(entries) == glob_star(entries)

\* reset_workspace: the operands of rm -rf /workspace/* /workspace/.*
operands(entries) == glob_star(entries) \cup glob_dotstar(entries)

\* rm -rf: every operand is removed but "." and "..", which rm refuses, and
\* the entries it cannot delete; its errors are discarded (2>/dev/null || true).
rm_rf(entries, ops, stuck) == entries \ ((ops \ {Dot, DotDot}) \ stuck)

\* reset_workspace: an exception of the exec is logged and nothing is removed.
reset_workspace(a) ==
    IF a.outcome = "raised" THEN [raised |-> FALSE, entries |-> a.entries]
    ELSE [raised |-> FALSE,
          entries |-> rm_rf(a.entries, operands(a.entries), a.stuck)]

\* file_list(h, "/workspace"): the names ls -la prints.
file_list(entries) == {Dot, DotDot} \cup entries

\* Every workspace, with the exec raising or returning and every set of
\* entries rm cannot delete.
ResetInputs ==
    {[entries |-> e, outcome |-> w, stuck |-> k] :
        e \in SUBSET Names, w \in {"returned", "raised"}, k \in SUBSET Names}

InitReset ==
    /\ client = FALSE
    /\ queue = <<>>
    /\ getters = <<>>
    /\ containers = <<>>
    /\ life = "new"
    /\ loopI = 0
    /\ stage = "-"
    /\ cstate = [c \in Handles |-> "absent"]
    /\ files = [c \in Handles |-> NoFile]
    /\ lingering = [c \in Handles |-> FALSE]
    /\ hs = [h \in Callers |-> Idle]
    /\ dropped = "none"
    /\ hist = <<>>
    /\ guardIn = <<>>
    /\ guardOut = NotRun
    /\ execIn = NoExecIn
    /\ execOut = NoExecOut
    /\ resetIn \in ResetInputs
    /\ resetOut = NoResetOut
    /\ NoRequests
    /\ NoBinding
    /\ NoAgentRun
    /\ NoPages
    /\ NoProxyRun
    /\ NoTokenRun

\* reset_workspace(h), then file_list(h, "/workspace").
Reset ==
    /\ ~resetOut.ran
    /\ LET r == reset_workspace(resetIn)
       IN  resetOut' = [ran |-> TRUE, raised |-> r.raised, entries |-> r.entries,
                        listing |-> file_list(r.entries)]
    /\ UNCHANGED <<resetIn, poolVars, guardVars, execVars, edgeVars>>

SpecReset == InitReset /\ [][Reset]_vars

\* ------------------------------------------ the path guard on its own
\* Every path of up to MaxPathLen tokens.
PathInputs == UNION {[1..n -> PathTokens] : n \in 0..MaxPathLen}

InitGuard ==
    /\ client = FALSE
    /\ queue = <<>>
    /\ getters = <<>>
    /\ containers = <<>>
    /\ life = "new"
    /\ loopI = 0
    /\ stage = "-"
    /\ cstate = [c \in Handles |-> "absent"]
    /\ files = [c \in Handles |-> NoFile]
    /\ lingering = [c \in Handles |-> FALSE]
    /\ hs = [h \in Callers |-> Idle]
    /\ dropped = "none"
    /\ hist = <<>>
    /\ guardIn \in PathInputs
    /\ guardOut = NotRun
    /\ execIn = NoExecIn
    /\ execOut = NoExecOut
    /\ resetIn = NoResetIn
    /\ resetOut = NoResetOut
    /\ NoRequests
    /\ NoBinding
    /\ NoAgentRun
    /\ NoPages
    /\ NoProxyRun
    /\ NoTokenRun

\* A file tool runs _safe_path on the caller's path.
Guard ==
    /\ ~guardOut.ran
    /\ guardOut' = [ok |-> safe_path(guardIn).ok, path |-> safe_path(guardIn).path,
                    ran |-> TRUE]
    /\ UNCHANGED <<guardIn, poolVars, execVars, resetVars, edgeVars>>

SpecGuard == InitGuard /\ [][Guard]_vars


\* ------------------------------------------------- the two MCP surfaces
\* The third-party API tools of tools/registry: one Graph tool and one GitHub
\* tool stand for the nineteen.
ThirdParty == {"get_user_information", "list_user_repositories"}
\* The tools the requests call.
Called == {"execute_code", "sandbox_write_file", "list_user_repositories"}

\* register_tools(mcp): execute_code.register and file_ops.register.
register_tools(tools) == tools \cup {"execute_code"} \cup FileTools

\* The FastMCP instances of main.py once the module is imported.
mcp == register_tools({})
mcp_no_execute == {}

\* The routes of the Starlette app.
Surfaces == {"/mcp", "/mcp-no-code-execute"}
app(surface) == IF surface = "/mcp" THEN mcp ELSE mcp_no_execute

\* What a surface answers to tools/list (name "-") or to tools/call of name.
serve(surface, name) ==
    IF name = "-"
    THEN [surface |-> surface, method |-> "tools/list", name |-> name,
          tools |-> app(surface), found |-> TRUE]
    ELSE [surface |-> surface, method |-> "tools/call", name |-> name,
          tools |-> {}, found |-> name \in app(surface)]

\* --------------------------------------------- the request context middleware
\* The headers requests come with: a Graph token header, a bearer token, both
\* spellings of the scheme, another scheme, and nothing at all.
HeaderSets ==
    {[NoHeaders EXCEPT !.x_microsoft_graph_token = "g1", !.x_github_username = "u1",
                       !.x_request_id = "r1"],
     [NoHeaders EXCEPT !.x_graph_token = "g2", !.authorization = <<"Bearer ", "b1">>,
                       !.x_request_id = "r2"],
     [NoHeaders EXCEPT !.authorization = <<"bearer ", "b2">>, !.x_github_username = ""],
     [NoHeaders EXCEPT !.authorization = <<"Basic ", "b3">>]}

\* str.strip() on the rest of an authorization header.
strip(text) == IF text = " b1 " THEN "b1" ELSE IF text = "  " THEN "" ELSE text

\* dispatch, had it compared the scheme as it is spelled.
bearer_token_as_spelled(authorization) ==
    IF authorization # <<>> /\ authorization[1] = "Bearer "
    THEN strip(authorization[2]) ELSE ""

\* dispatch: the bearer token of the authorization header, kept as its first
\* seven characters and the rest: authorization[7:].strip() when
\* authorization.lower() starts with "bearer ".
bearer_token(authorization) ==
    IF authorization # <<>> /\ lower(authorization[1]) = "bearer "
    THEN strip(authorization[2]) ELSE ""

\* dispatch: the mapping bound for the request.
request_context(h) ==
    {<<"graph_token", Or(Or(Or(h.x_microsoft_graph_token, h.x_graph_token),
                            bearer_token(h.authorization)), None)>>,
     <<"github_username", Or(h.x_github_username, None)>>,
     <<"request_id", Or(h.x_request_id, None)>>}

\* The middleware, had it kept the mapping in a module global.
context_global(task) == task - task

\* contextvars: every task has a context of its own, a copy of the context of
\* the task that created it.
context_of(task) == task

\* get_request_context(): _REQUEST_CONTEXT.get() or {}
get_request_context(v) == IF v.none \/ v.map = {} THEN {} ELSE v.map

\* dispatch, had it reset the variable after the return of call_next only.
reset_unless_raised(current, old, outcome) ==
    IF outcome = "raised" THEN current ELSE old

\* dispatch: finally: _REQUEST_CONTEXT.reset(token)
finally_reset(current, old, outcome) == old

\* A request reaches a surface in a task of its own: dispatch binds the
\* mapping, and call_next starts the downstream app in a task whose context
\* is a copy of the context of dispatch.
Dispatch(r) ==
    /\ reqs[r].pc = "none"
    /\ \E h \in HeaderSets, s \in Surfaces :
          LET task == context_of(r)
              born == [ctx EXCEPT ![task] = ctx[context_of(0)]]
              set == [born EXCEPT ![task] = Bound(request_context(h))]
          IN  /\ ctx' = [set EXCEPT ![context_of(Down(r))] = set[task]]
              /\ reqs' = [reqs EXCEPT ![r] =
                            [IdleReq EXCEPT !.pc = "downstream", !.headers = h,
                                            !.surface = s, !.token = born[task]]]
    /\ UNCHANGED <<stray, served, poolVars, guardVars, execVars, resetVars,
                   proxyVars, tokenVars, callVars>>

\* The handler of request r calls get_request_context().
HandlerReads(r) ==
    /\ reqs[r].pc = "downstream"
    /\ reqs' = [reqs EXCEPT ![r].read = TRUE,
                            ![r].seen = get_request_context(ctx[context_of(Down(r))])]
    /\ UNCHANGED <<ctx, stray, served, poolVars, guardVars, execVars, resetVars,
                   proxyVars, tokenVars, callVars>>

\* call_next returns the response of the surface (the list of its tools, or
\* the result of a call of one tool) or raises; the finally clause resets the
\* variable and dispatch ends.  The downstream task has ended by then, and its
\* context with it.
DispatchEnds(r, outcome) ==
    /\ reqs[r].pc = "downstream"
    /\ ctx' = [ctx EXCEPT ![context_of(Down(r))] = Unset,
                           ![context_of(r)] =
                              finally_reset(ctx[context_of(r)], reqs[r].token, outcome)]
    /\ reqs' = [reqs EXCEPT ![r] = [IdleReq EXCEPT !.token = reqs[r].token,
                                                   !.outcome = outcome]]
    /\ IF outcome = "returned"
       THEN \E name \in Called \cup {"-"} : served' = serve(reqs[r].surface, name)
       ELSE served' = served
    /\ UNCHANGED <<stray, poolVars, guardVars, execVars, resetVars, proxyVars,
                   tokenVars, callVars>>

\* get_request_context() is called outside any request: by the server, or in
\* the task of a request after dispatch has ended.
ReadOutside(t) ==
    /\ t = 0 \/ (t \in Requests /\ reqs[t].pc = "none" /\ reqs[t].outcome # "-")
    /\ stray' = [ran |-> TRUE, after |-> IF t = 0 THEN "-" ELSE reqs[t].outcome,
                 value |-> get_request_context(ctx[context_of(t)])]
    /\ UNCHANGED <<ctx, reqs, served, poolVars, guardVars, execVars, resetVars,
                   proxyVars, tokenVars, callVars>>

InitServer ==
    /\ client = FALSE
    /\ queue = <<>>
    /\ getters = <<>>
    /\ containers = <<>>
    /\ life = "new"
    /\ loopI = 0
    /\ stage = "-"
    /\ cstate = [c \in Handles |-> "absent"]
    /\ files = [c \in Handles |-> NoFile]
    /\ lingering = [c \in Handles |-> FALSE]
    /\ hs = [h \in Callers |-> Idle]
    /\ dropped = "none"
    /\ hist = <<>>
    /\ guardIn = <<>>
    /\ guardOut = NotRun
    /\ execIn = NoExecIn
    /\ execOut = NoExecOut
    /\ resetIn = NoResetIn
    /\ resetOut = NoResetOut
    /\ NoRequests
    /\ NoBinding
    /\ NoAgentRun
    /\ NoPages
    /\ NoProxyRun
    /\ NoTokenRun

NextServer ==
    \/ \E r \in Requests : Dispatch(r)
    \/ \E r \in Requests : HandlerReads(r)
    \/ \E r \in Requests, outcome \in {"returned", "raised"} : DispatchEnds(r, outcome)
    \/ \E t \in Tasks : ReadOutside(t)

SpecServer == InitServer /\ [][NextServer]_vars


\* ---------------------------------------------------------- the API proxy
\* DEFAULT_TIMEOUT of client/proxy.py, in seconds.
DEFAULT_TIMEOUT == 30
GRAPH_BASE_URL == "https://graph.microsoft.com/v1.0"
GITHUB_BASE_URL == "https://api.github.com"

\* The KV store: proxy ID p1 is bound to token T1, no other key is.
ProxyIds == {None, "", "p1", "p2"}
redis_get(key) == IF key = "p1" THEN "T1" ELSE None

\* The parameters of _proxy_request after request, and a call that names
\* its arguments: a keyword that is no parameter, or a parameter left without
\* an argument, is a TypeError.
Parameters == {"base_url", "path", "headers"}
Binds(keywords) == keywords = Parameters

\* Response(content, status_code, media_type)
Response(content, status_code, media_type) ==
    [content |-> content, status_code |-> status_code, media_type |-> media_type]
NoResponse == Response("-", 0, None)

\* What a route handler did: the keys it looked up, the upstream requests it
\* sent, and the response it returned or the exception that left it.
Returns(lookups, sent, resp) ==
    [raised |-> None, lookups |-> lookups, sent |-> sent, response |-> resp]
Raises(lookups, sent, exc) ==
    [raised |-> exc, lookups |-> lookups, sent |-> sent, response |-> NoResponse]

\* _proxy_request: a is the incoming request and what the upstream does.
proxy_request(a, lookups, base_url, path, headers) ==
    LET target_url == [base |-> base_url, path |-> path, query |-> a.query]
        out == [method |-> a.method, url |-> target_url, headers |-> headers,
                content |-> IF a.body # "" THEN a.body ELSE None,
                timeout |-> DEFAULT_TIMEOUT]
    IN  IF a.upstream.timeout
        THEN Raises(lookups, <<out>>, "httpx.TimeoutException")
        ELSE Returns(lookups, <<out>>,
                       Response(a.upstream.content, a.upstream.status_code,
                                a.upstream.content_type))

\* The call of _proxy_request with its arguments named by keywords.
call_proxy_request(a, lookups, keywords, base_url, path, headers) ==
    IF Binds(keywords) THEN proxy_request(a, lookups, base_url, path, headers)
    ELSE Raises(lookups, <<>>, "TypeError")

\* graph_proxy, had it asked the KV store before looking at the header.
no_proxy_id_after_lookup(a) ==
    Returns(<<a.proxy_id>>, <<>>,
              Response("unknown request, cannot continue!", 401, "text/plain"))

\* graph_proxy: if not proxy_id
no_proxy_id(a) ==
    Returns(<<>>, <<>>,
              Response("unknown request, cannot continue!", 401, "text/plain"))

\* graph_proxy
graph_proxy(a) ==
    IF ~Truthy(a.proxy_id) THEN no_proxy_id(a)
    ELSE IF ~a.redis_up THEN Raises(<<a.proxy_id>>, <<>>, "redis.ConnectionError")
    ELSE LET token == redis_get(a.proxy_id)
         IN  IF ~Truthy(token)
             THEN Returns(<<a.proxy_id>>, <<>>,
                            Response("invalid proxy ID, cannot continue!", 401,
                                     "text/plain"))
             ELSE call_proxy_request(a, <<a.proxy_id>>,
                                     {"base_url", "path", "auth_header"},
                                     GRAPH_BASE_URL, a.path,
                                     {<<"Authorization", <<"Bearer ", token>>>>})

\* github_proxy: settings.github_token is read and not used.
github_proxy(a) ==
    LET token == a.github_token
    IN  call_proxy_request(a, <<>>, {"base_url", "path", "headers"},
                           GITHUB_BASE_URL, a.path,
                           {<<"accept", <<"application/vnd.github.v3+json">>>>})

\* What the upstream does with a request: it answers, or no answer comes
\* within the timeout.
Upstreams ==
    {[timeout |-> TRUE, status_code |-> 0, content_type |-> None, content |-> ""]}
    \cup
    {[timeout |-> FALSE, status_code |-> s, content_type |-> t, content |-> c] :
        s \in {200, 404}, t \in {None, "application/json"}, c \in {"", "R"}}

\* Every request to either route, with the KV store up or down, a GitHub
\* token configured or not, and every upstream.
ProxyInputs ==
    {[route |-> r, method |-> m, path |-> "me", query |-> q, body |-> b,
      proxy_id |-> p, redis_up |-> k, github_token |-> g, upstream |-> u] :
        r \in {"graph", "github"}, m \in {"GET", "POST"}, q \in {"", "a=1"},
        b \in {"", "B"}, p \in ProxyIds, k \in BOOLEAN, g \in {"", "G"},
        u \in Upstreams}

InitProxy ==
    /\ client = FALSE
    /\ queue = <<>>
    /\ getters = <<>>
    /\ containers = <<>>
    /\ life = "new"
    /\ loopI = 0
    /\ stage = "-"
    /\ cstate = [c \in Handles |-> "absent"]
    /\ files = [c \in Handles |-> NoFile]
    /\ lingering = [c \in Handles |-> FALSE]
    /\ hs = [h \in Callers |-> Idle]
    /\ dropped = "none"
    /\ hist = <<>>
    /\ guardIn = <<>>
    /\ guardOut = NotRun
    /\ execIn = NoExecIn
    /\ execOut = NoExecOut
    /\ resetIn = NoResetIn
    /\ resetOut = NoResetOut
    /\ NoRequests
    /\ NoBinding
    /\ NoAgentRun
    /\ NoPages
    /\ proxyIn \in ProxyInputs
    /\ proxyOut = [ran |-> FALSE]
    /\ NoTokenRun

\* The router calls the handler of the route.
Proxy ==
    /\ ~proxyOut.ran
    /\ LET r == IF proxyIn.route = "graph" THEN graph_proxy(proxyIn)
                ELSE github_proxy(proxyIn)
       IN  proxyOut' = [ran |-> TRUE, raised |-> r.raised, lookups |-> r.lookups,
                        sent |-> r.sent, response |-> r.response]
    /\ UNCHANGED <<proxyIn, poolVars, guardVars, execVars, resetVars, serverVars,
                   tokenVars, callVars>>

SpecProxy == InitProxy /\ [][Proxy]_vars


\* ------------------------------------------ resolve_graph_token on its own
\* A value that is no str, as a context object can hold one.
Seven == "int 7"
IsStr(v) == v \notin {None, Seven}

\* dict.get(key) of a mapping kept as a set of <<key, value>>.
get(m, key) ==
    IF \E p \in m : p[1] = key THEN (CHOOSE p \in m : p[1] = key)[2] ELSE None

\* get_context_value: the places of ctx the key is looked for in (the dict
\* item, the attribute, the accessors get / get_state / state, request.state
\* and its mcp_context), in this order; found is what they hold.
RECURSIVE first_str(_)
first_str(found) ==
    IF found = <<>> THEN None
    ELSE IF IsStr(found[1]) /\ found[1] # "" THEN found[1]
    ELSE first_str(Tail(found))

\* resolve_graph_token, had it not looked at the request context.
get_context_value_skipped(a, key) == None

\* get_context_value(ctx, key): a.ctx is what the places of ctx hold for the
\* key (none when ctx is None), a.middleware the mapping of the middleware.
get_context_value(a, key) ==
    LET value == first_str(a.ctx)
        middleware_value == get(a.middleware, key)
    IN  IF value # None THEN value
        ELSE IF IsStr(middleware_value) /\ middleware_value # ""
        THEN middleware_value ELSE None

\* resolve_graph_token(ctx, token)
resolve_graph_token(a) ==
    LET resolved == Or(Or(Or(a.token, get_context_value(a, "graph_token")),
                          a.MICROSOFT_GRAPH_TOKEN), a.GRAPH_TOKEN)
    IN  IF ~Truthy(resolved)
        THEN [raised |-> "ValueError",
              message |-> <<"Microsoft Graph token is required.",
                            " Provide token argument or set MICROSOFT_GRAPH_TOKEN/GRAPH_TOKEN.">>,
              value |-> None]
        ELSE [raised |-> None, message |-> <<>>, value |-> resolved]

\* What ctx holds for the key: up to two places, each None, empty, a token
\* or no str.
Found == UNION {[1..n -> {None, "", "C1", Seven}] : n \in 0..2}

\* Every token argument, every ctx, the mapping of a request of each kind or
\* of none, and both environment variables unset, empty or set.
TokenInputs ==
    {[token |-> t, ctx |-> c, middleware |-> m, MICROSOFT_GRAPH_TOKEN |-> e,
      GRAPH_TOKEN |-> g] :
        t \in {None, "", "A"}, c \in Found,
        m \in {{}} \cup {request_context(h) : h \in HeaderSets},
        e \in {None, "", "E1"}, g \in {None, "", "E2"}}

InitToken ==
    /\ client = FALSE
    /\ queue = <<>>
    /\ getters = <<>>
    /\ containers = <<>>
    /\ life = "new"
    /\ loopI = 0
    /\ stage = "-"
    /\ cstate = [c \in Handles |-> "absent"]
    /\ files = [c \in Handles |-> NoFile]
    /\ lingering = [c \in Handles |-> FALSE]
    /\ hs = [h \in Callers |-> Idle]
    /\ dropped = "none"
    /\ hist = <<>>
    /\ guardIn = <<>>
    /\ guardOut = NotRun
    /\ execIn = NoExecIn
    /\ execOut = NoExecOut
    /\ resetIn = NoResetIn
    /\ resetOut = NoResetOut
    /\ NoRequests
    /\ NoBinding
    /\ NoAgentRun
    /\ NoPages
    /\ NoProxyRun
    /\ tokenIn \in TokenInputs
    /\ tokenOut = [ran |-> FALSE]

\* A Graph tool resolves its token.
Resolve ==
    /\ ~tokenOut.ran
    /\ LET r == resolve_graph_token(tokenIn)
       IN  tokenOut' = [ran |-> TRUE, raised |-> r.raised, message |-> r.message,
                        value |-> r.value]
    /\ UNCHANGED <<tokenIn, poolVars, guardVars, execVars, resetVars, serverVars,
                   proxyVars, callVars>>

SpecToken == InitToken /\ [][Resolve]_vars

\* ------------------------------------------- the binding on its own
\* The headers a request can come with: each header absent, empty or set; the
\* authorization header absent, with the Bearer scheme in two spellings, with
\* blanks around the token, with no token, and with another scheme.
BindInputs ==
    [x_microsoft_graph_token : {None, "", "g1"},
     x_graph_token : {None, "", "g2"},
     authorization : {<<>>, <<"Bearer ", "b1">>, <<"bearer ", " b1 ">>,
                      <<"Bearer ", "  ">>, <<"Basic ", "b3">>},
     x_github_username : {None, "", "u1"},
     x_request_id : {None, "", "r1"}]

InitBind ==
    /\ client = FALSE
    /\ queue = <<>>
    /\ getters = <<>>
    /\ containers = <<>>
    /\ life = "new"
    /\ loopI = 0
    /\ stage = "-"
    /\ cstate = [c \in Handles |-> "absent"]
    /\ files = [c \in Handles |-> NoFile]
    /\ lingering = [c \in Handles |-> FALSE]
    /\ hs = [h \in Callers |-> Idle]
    /\ dropped = "none"
    /\ hist = <<>>
    /\ guardIn = <<>>
    /\ guardOut = NotRun
    /\ execIn = NoExecIn
    /\ execOut = NoExecOut
    /\ resetIn = NoResetIn
    /\ resetOut = NoResetOut
    /\ NoRequests
    /\ bindIn \in BindInputs
    /\ bindOut = [ran |-> FALSE]
    /\ NoAgentRun
    /\ NoPages
    /\ NoProxyRun
    /\ NoTokenRun

\* dispatch builds the mapping of the request from its headers.
Bind ==
    /\ ~bindOut.ran
    /\ bindOut' = [ran |-> TRUE, request_context |-> request_context(bindIn)]
    /\ UNCHANGED <<bindIn, poolVars, guardVars, execVars, resetVars, serverVars,
                   proxyVars, tokenVars, agentVars, pagesVars>>

SpecBind == InitBind /\ [][Bind]_vars

\* ------------------------------------------------- run_agent on its own
\* Most tool calls one agent run makes.
MaxToolCalls == 2

\* The agents of the client: each is bound to one surface of the server
\* (settings.mcp_server_url, settings.mcp_server_no_code_execute_url).
agent == [toolsets |-> "/mcp"]
concrete_tool_agent == [toolsets |-> "/mcp-no-code-execute"]

\* What the messages of a run hold for one tool call: whether a ToolReturnPart
\* answers it, its error flag and its content.
ToolCallParts ==
    {[answered |-> FALSE, flagged |-> FALSE, content |-> <<>>],
     [answered |-> TRUE, flagged |-> FALSE, content |-> <<"ok">>],
     [answered |-> TRUE, flagged |-> TRUE, content |-> <<"ok">>],
     [answered |-> TRUE, flagged |-> FALSE, content |-> <<" ", "Error", "x">>]}

\* What agent.run can end with: an exception, or the tool calls of its messages.
RunOutcomes ==
    {[raised |-> TRUE, messages |-> <<>>]}
    \cup {[raised |-> FALSE, messages |-> m] :
             m \in UNION {[1..n -> ToolCallParts] : n \in 0..MaxToolCalls}}

\* extract_tool_calls: the is_error entries of the tool calls of a run.
extract_tool_calls(messages) ==
    [i \in 1..Len(messages) |->
        /\ messages[i].answered
        /\ is_error(messages[i].flagged, messages[i].content)]

\* any(tc["is_error"] for tc in tool_calls)
any(flags) == \E i \in 1..Len(flags) : flags[i]

AgentInputs ==
    [use_code_exec_agent : BOOLEAN, first : RunOutcomes, retry : RunOutcomes]

InitAgent ==
    /\ client = FALSE
    /\ queue = <<>>
    /\ getters = <<>>
    /\ containers = <<>>
    /\ life = "new"
    /\ loopI = 0
    /\ stage = "-"
    /\ cstate = [c \in Handles |-> "absent"]
    /\ files = [c \in Handles |-> NoFile]
    /\ lingering = [c \in Handles |-> FALSE]
    /\ hs = [h \in Callers |-> Idle]
    /\ dropped = "none"
    /\ hist = <<>>
    /\ guardIn = <<>>
    /\ guardOut = NotRun
    /\ execIn = NoExecIn
    /\ execOut = NoExecOut
    /\ resetIn = NoResetIn
    /\ resetOut = NoResetOut
    /\ NoRequests
    /\ NoBinding
    /\ agentIn \in AgentInputs
    /\ agentOut = [pc |-> "start", runs |-> <<>>, tool_calls |-> <<>>]
    /\ NoPages
    /\ NoProxyRun
    /\ NoTokenRun

\* run_agent up to the return of its first agent.run: the agent the flag
\* selects runs; an exception leaves run_agent, tool errors lead to the retry.
FirstRun ==
    /\ agentOut.pc = "start"
    /\ LET which == IF agentIn.use_code_exec_agent THEN agent
                    ELSE concrete_tool_agent
           tool_calls == extract_tool_calls(agentIn.first.messages)
       IN  agentOut' = [pc |-> IF agentIn.first.raised THEN "raised"
                               ELSE IF any(tool_calls) THEN "retry"
                               ELSE "returned",
                        runs |-> <<which>>,
                        tool_calls |-> tool_calls]
    /\ UNCHANGED <<agentIn, poolVars, guardVars, execVars, resetVars, serverVars,
                   proxyVars, tokenVars, bindVars, pagesVars>>

\* run_agent from the retry to its end: retry_result = await agent.run(...),
\* whatever the flag; run_agent then returns, or the exception leaves it.
RetryRun ==
    /\ agentOut.pc = "retry"
    /\ agentOut' = [pc |-> IF agentIn.retry.raised THEN "raised" ELSE "returned",
                    runs |-> Append(agentOut.runs, agent),
                    tool_calls |-> agentOut.tool_calls
                                   \o extract_tool_calls(agentIn.retry.messages)]
    /\ UNCHANGED <<agentIn, poolVars, guardVars, execVars, resetVars, serverVars,
                   proxyVars, tokenVars, bindVars, pagesVars>>

NextAgent == FirstRun \/ RetryRun

SpecAgent == InitAgent /\ [][NextAgent]_vars

\* ------------------------------------- collect_paginated_values on its own
\* The largest max_pages a call is made with.
MaxPages == 2

\* What the API answers to one request: an object whose "value" is a list
\* (with an item that is no object) and which carries a next link, the same
\* without a link and with an empty link, an object whose "value" is no list,
\* an array, and a status that raise_for_status turns into an exception.
Payloads ==
    {[kind |-> "dict", is_list |-> TRUE, value |-> <<"a", "7">>, nextLink |-> "next"],
     [kind |-> "dict", is_list |-> TRUE, value |-> <<"b">>, nextLink |-> None],
     [kind |-> "dict", is_list |-> TRUE, value |-> <<>>, nextLink |-> ""],
     [kind |-> "dict", is_list |-> FALSE, value |-> <<>>, nextLink |-> "next"],
     [kind |-> "list", is_list |-> FALSE, value |-> <<>>, nextLink |-> None],
     [kind |-> "raise", is_list |-> FALSE, value |-> <<>>, nextLink |-> None]}

\* isinstance(item, dict) on the items of the model.
is_dict(item) == item # "7"

\* item for item in value if isinstance(item, dict)
RECURSIVE dict_items(_)
dict_items(value) ==
    IF value = <<>> THEN <<>>
    ELSE (IF is_dict(value[1]) THEN <<value[1]>> ELSE <<>>) \o dict_items(Tail(value))

\* collect_paginated_values, had its loop gone on while there is a link.
while_link(next_url, page, max_pages) == Truthy(next_url)

\* while next_url and page < max_pages
while_cond(next_url, page, max_pages) == Truthy(next_url) /\ page < max_pages

\* The arguments of a call and the answers the API gives, request by request.
PagesInputs ==
    [first_url : {"first"}, params : {None, "top"}, max_pages : 0..MaxPages,
     answers : [1..(MaxPages + 1) -> Payloads]]

\* request_json(client, "GET", next_url, headers=headers, params=current_params)
request_json(run) == Append(run.sent, [url |-> run.next_url, params |-> run.current_params])

\* The loop from its test to the next await or to the return.
loop(run) ==
    IF while_cond(run.next_url, run.page, pagesIn.max_pages)
    THEN [run EXCEPT !.pc = "awaiting", !.sent = request_json(run)]
    ELSE [run EXCEPT !.pc = "returned"]

InitPages ==
    /\ client = FALSE
    /\ queue = <<>>
    /\ getters = <<>>
    /\ containers = <<>>
    /\ life = "new"
    /\ loopI = 0
    /\ stage = "-"
    /\ cstate = [c \in Handles |-> "absent"]
    /\ files = [c \in Handles |-> NoFile]
    /\ lingering = [c \in Handles |-> FALSE]
    /\ hs = [h \in Callers |-> Idle]
    /\ dropped = "none"
    /\ hist = <<>>
    /\ guardIn = <<>>
    /\ guardOut = NotRun
    /\ execIn = NoExecIn
    /\ execOut = NoExecOut
    /\ resetIn = NoResetIn
    /\ resetOut = NoResetOut
    /\ NoRequests
    /\ NoBinding
    /\ NoAgentRun
    /\ pagesIn \in PagesInputs
    /\ pagesOut = [pc |-> "start", results |-> <<>>, next_url |-> pagesIn.first_url,
                   page |-> 0, current_params |-> pagesIn.params, sent |-> <<>>]
    /\ NoProxyRun
    /\ NoTokenRun

\* collect_paginated_values is called: it returns at once, or sends the first
\* request with the caller's params and waits for the answer.
CallPages ==
    /\ pagesOut.pc = "start"
    /\ pagesOut' = loop(pagesOut)
    /\ UNCHANGED <<pagesIn, poolVars, guardVars, execVars, resetVars, serverVars,
                   proxyVars, tokenVars, bindVars, agentVars>>

\* The answer to the pending request arrives: the exception of request_json
\* leaves the function; an array ends the loop; an object adds its items and
\* gives the next link, and the loop goes round.
AnswerPages ==
    /\ pagesOut.pc = "awaiting"
    /\ LET payload == pagesIn.answers[Len(pagesOut.sent)]
           asked == [pagesOut EXCEPT !.current_params = None]
       IN  pagesOut' =
              IF payload.kind = "raise" THEN [pagesOut EXCEPT !.pc = "raised"]
              ELSE IF payload.kind # "dict" THEN [asked EXCEPT !.pc = "returned"]
              ELSE loop([asked EXCEPT
                           !.results = IF payload.is_list
                                       THEN @ \o dict_items(payload.value) ELSE @,
                           !.next_url = payload.nextLink,
                           !.page = @ + 1])
    /\ UNCHANGED <<pagesIn, poolVars, guardVars, execVars, resetVars, serverVars,
                   proxyVars, tokenVars, bindVars, agentVars>>

NextPages == CallPages \/ AnswerPages

SpecPages == InitPages /\ [][NextPages]_vars

\* The client has a timeout: every request is answered or fails.
SpecPagesFair == SpecPages /\ WF_vars(NextPages)

\* ------------------------------------------------------------ the claims
Range(f) == {f[i] : i \in DOMAIN f}
Occurrences(q, c) == Cardinality({i \in DOMAIN q : q[i] = c})

\* The callers that hold handle c: acquire() returned it and they have not
\* released it.
Holders(c) == {h \in Callers : hs[h].held = c}
\* The callers inside exec_code on handle c.
InExec(c) == {h \in Holders(c) : hs[h].pc \in {"exec", "kill"}}
\* No call is in flight.
Quiescent == \A h \in Callers : hs[h].pc = "none"

\* C1: at no instant is one container handle held by two callers, under every
\* interleaving of the tool handlers.
C1_NoDoubleHold == \A c \in Handles : Cardinality(Holders(c)) <= 1

\* C1 witness: every container is held, each by one caller, while a third
\* caller is in acquire().
C1_Witness ==
    /\ \A c \in Handles : Cardinality(Holders(c)) = 1
    /\ \E h \in Callers : hs[h].pc \in {"waiting", "woken"}

\* C2: a handler that acquired a container gives it up only by ending, and in
\* that step puts exactly that handle back at the end of the idle queue, once,
\* on every exit path; so while the pool runs and no call is in flight the idle
\* queue is back at its full level.
C2_ReleasedOnEveryExit ==
    /\ [](life = "running" /\ Quiescent => Len(queue) = PoolSize)
    /\ [][\A h \in Callers :
            (hs[h].held # NoHandle /\ hs'[h].held # hs[h].held)
               => /\ hs'[h] = Idle
                  /\ queue' = Append(queue, hs[h].held)]_vars

\* C2 witness: a call made alone ended by an exception raised by the pool
\* operation, and the idle queue is full again.
C2_Witness ==
    /\ life = "running"
    /\ Quiescent
    /\ hist # <<>>
    /\ hist[1].outcome = "raised"
    /\ hist[1].data \in {"not found", "docker"}
    /\ Len(queue) = PoolSize

\* C3: with no other request in flight, sandbox_write_file(path, content)
\* followed by sandbox_read_file(path) returns the content written (the path
\* is that of a file: the read is not one of the workspace directory).
C3_WriteThenRead ==
    [][(/\ life = "running"
        /\ hist # <<>>
        /\ hist[1].tool = "sandbox_write_file"
        /\ hist[1].outcome = "returned"
        /\ \E h \in Callers : hs[h].pc = "fileop" /\ hs[h].solo /\ hs'[h].pc = "none"
        /\ hist' # <<>>
        /\ hist'[1].tool = "sandbox_read_file"
        /\ hist'[1].outcome # "cancelled"
        /\ hist'[1].data # "is a directory")
       => (hist'[1].outcome = "returned" /\ hist'[1].data = hist[1].data)]_vars

\* C4: _safe_path either raises or returns /workspace or a path that begins
\* with /workspace/.
C4_UnderWorkspace ==
    (guardOut.ran /\ guardOut.ok)
        => \/ guardOut.path = WorkspaceRoot
           \/ StartsWith(guardOut.path, WorkspaceRoot \o <<"/">>)

\* C5 as claimed: while a run of exec_code is in progress in a container, no
\* run of an earlier exec_code call is alive in that container.
C5_RunsNeverOverlap ==
    \A h \in Callers : hs[h].pc = "exec" => ~lingering[hs[h].held]

\* C5 amended: at most one caller is inside exec_code on a handle at any
\* instant, so the calls on one handle never overlap.
C5_CallsNeverOverlap == \A c \in Handles : Cardinality(InExec(c)) <= 1

\* C5 witness: a call runs exec_code on a handle on which an earlier call,
\* since released, left its run alive.
C5_Witness ==
    \E h \in Callers : hs[h].pc = "exec" /\ lingering[hs[h].held]

\* C6: when start() fails, no container it created is still running, the owned
\* list is empty and the idle queue is empty.
C6_RolledBack ==
    life = "failed"
        => /\ \A c \in Handles : cstate[c] \notin {"created", "ready"}
           /\ containers = <<>>
           /\ queue = <<>>

\* C7: every handle in the idle queue is also in the owned list, in every
\* reachable state.
C7_IdleAreOwned == Range(queue) \subseteq Range(containers)

\* C8: while the pool runs, an owned handle is in the idle queue iff no caller
\* holds it, it is there at most once, and idle count + held count = pool_size.
C8_IdleIffNotHeld ==
    life = "running"
        => /\ \A c \in Range(containers) :
                /\ (c \in Range(queue)) <=> (Holders(c) = {})
                /\ Occurrences(queue, c) <= 1
           /\ Len(queue) + Cardinality({h \in Callers : hs[h].held # NoHandle})
                 = PoolSize

\* C8 witness: the pool runs with one container held and the other idle.
C8_Witness ==
    /\ life = "running"
    /\ Len(queue) = 1
    /\ \E h \in Callers : hs[h].held # NoHandle /\ hs[h].held # queue[1]

\* C9: while the pool runs the owned list holds pool_size distinct containers,
\* and no step of a handler or of the pool operations changes it.
C9_OwnedIsPoolSize ==
    /\ [](life = "running"
            => Len(containers) = PoolSize /\ Range(containers) = Handles)
    /\ [][life = "running" /\ life' = "running" => containers' = containers]_vars

\* C9 witness: the pool runs, a call has ended and another holds a container.
C9_Witness ==
    /\ life = "running"
    /\ Len(containers) = PoolSize
    /\ hist # <<>>
    /\ \E h \in Callers : hs[h].held # NoHandle

\* While the pool runs, every owned handle is idle or held by a live caller.
NoLeak ==
    \A c \in Range(containers) : c \in Range(queue) \/ Holders(c) # {}

\* C10: a request cancelled at any suspension point leaks no container: the
\* step that processes the cancellation puts the handle the task held back in
\* the idle queue, a cancelled waiter takes nothing out of it, no other
\* caller's handle is touched, and every owned handle stays idle or held.
C10_DropLeaksNothing ==
    /\ [](life = "running" => NoLeak)
    /\ [][dropped' # "none"
            => \E h \in Callers :
                  /\ hs[h].pc = dropped'
                  /\ hs'[h] = Idle
                  /\ queue' = IF hs[h].held = NoHandle THEN queue
                              ELSE Append(queue, hs[h].held)
                  /\ \A o \in Callers \ {h} : hs'[o].held = hs[o].held]_vars

\* C10 witness: a waiter that a put had woken was cancelled before it ran; the
\* container it was woken for is still in the idle queue.
C10_Witness ==
    /\ life = "running"
    /\ dropped = "woken"
    /\ queue # <<>>
    /\ NoLeak

\* A caller is inside pool.acquire().
Pending(h) == hs[h].pc \in {"waiting", "woken"}

\* C11 as claimed: while the pool runs and every holder eventually releases,
\* every pending acquire() eventually returns.
C11_WaitersReturn ==
    \A h \in Callers :
        (life = "running" /\ Pending(h)) ~> (~Pending(h) \/ life # "running")

\* C11 amended: while the pool runs and every holder eventually releases, every
\* suspended acquire() is eventually woken by a release().
C11_WaitersAreWoken ==
    \A h \in Callers :
        (life = "running" /\ hs[h].pc = "waiting")
            ~> (hs[h].pc # "waiting" \/ life # "running")

\* C11 witness: a release() woke a waiter and a caller that arrived later took
\* the container before the waiter ran.
C11_Witness ==
    /\ life = "running"
    /\ queue = <<>>
    /\ \E h \in Callers : hs[h].pc = "woken"

\* C12: shutdown() runs to completion without raising whichever removals fail:
\* each step of its loop attempts the removal of the next owned container, the
\* step after the last attempt returns, and on return the owned list and the
\* idle queue are empty and the client is closed.
C12_ShutdownCompletes ==
    /\ (life = "stopping") ~> (life = "stopped")
    /\ [][life = "stopping"
            => \/ /\ life' = "stopping"
                  /\ loopI' = loopI \/ (loopI < Len(containers) /\ loopI' = loopI + 1)
                  /\ containers' = containers
               \/ /\ life' = "stopped"
                  /\ loopI = Len(containers)
                  /\ containers' = <<>>
                  /\ queue' = <<>>
                  /\ client' = FALSE]_vars
    /\ [][life = "running" /\ life' = "stopping" => loopI' = 1]_vars

\* C12 witness: shutdown() returned although the removal of one container
\* failed and that of another succeeded.
C12_Witness ==
    /\ life = "stopped"
    /\ \E c \in Handles : cstate[c] = "removed"
    /\ \E c \in Handles : cstate[c] = "ready"
    /\ containers = <<>>
    /\ client = FALSE

\* C13: when start() returns normally pool_size containers have been created,
\* each with /workspace ensured, and all of them are in the owned list and in
\* the idle queue; a handle is in the owned list or the idle queue only after
\* its /workspace was ensured.
C13_StartedPoolIsReady ==
    /\ [](life \in {"starting", "running"}
            => \A c \in Range(queue) \cup Range(containers) : cstate[c] = "ready")
    /\ [][life = "starting" /\ life' = "running"
            => /\ Len(containers') = PoolSize
               /\ Range(containers') = Handles
               /\ queue' = containers'
               /\ \A c \in Handles : cstate'[c] = "ready"]_vars

\* C13 witness: start() has just returned.
C13_Witness ==
    /\ life = "running"
    /\ Quiescent
    /\ hist = <<>>
    /\ queue = containers
    /\ Len(queue) = PoolSize
    /\ \A c \in Handles : cstate[c] = "ready"

\* exec_code returned a result.
Returned == execOut.ran /\ ~execOut.raised

\* C14: exec_code returns exit_code -1 iff the run did not finish within the
\* timeout in force (the caller's, or EXEC_TIMEOUT when none is given); then
\* stdout is empty, truncated is false and stderr is "Execution timed out
\* after N seconds" with N that timeout.
C14_MinusOneIffTimedOut ==
    Returned
        => /\ (execOut.result.exit_code = -1)
                 <=> (lower(execIn.language) \in LANGUAGE_COMMANDS
                        /\ execIn.outcome = "timeout")
           /\ execOut.result.exit_code = -1
                 => /\ execOut.result.stdout = <<>>
                    /\ ~execOut.result.truncated
                    /\ execOut.result.stderr =
                          <<"Execution timed out after ",
                            ToString(IF execIn.timeout.given
                                     THEN execIn.timeout.secs ELSE exec_timeout),
                            " seconds">>

\* C14 witness: a run under a caller-supplied timeout timed out.
C14_Witness ==
    /\ Returned
    /\ execIn.timeout.given
    /\ execIn.outcome = "timeout"
    /\ execOut.result.exit_code = -1

\* C15: execute_code never raises: whatever the runtime does it returns a
\* response with an [exit_code] section, and a response that reports an error
\* text has it in the [stderr] section.
C15_NeverRaises ==
    execOut.ran
        => /\ ~execOut.raised
           /\ \E i \in DOMAIN execOut.response : execOut.response[i].tag = "[exit_code]"
           /\ execOut.result.stderr # <<>>
                 => \E i \in DOMAIN execOut.response :
                        /\ execOut.response[i].tag = "[stderr]"
                        /\ execOut.response[i].body = execOut.result.stderr

\* C16: a language tag whose lowercased form is no supported language yields
\* exit_code 1, empty stdout, truncated false, a stderr naming the supported
\* set, and no operation on the container.
C16_UnsupportedLanguage ==
    (execOut.ran /\ lower(execIn.language)
                      \notin {"python", "bash", "sh", "node", "javascript"})
        => /\ ~execOut.raised
           /\ execOut.result.exit_code = 1
           /\ execOut.result.stdout = <<>>
           /\ ~execOut.result.truncated
           /\ \E i \in DOMAIN execOut.result.stderr :
                  execOut.result.stderr[i] = "python, bash, sh, node, javascript"
           /\ execOut.ops = <<>>

\* C16 witness: a call with the tag "ruby", whatever the runtime would do.
C16_Witness ==
    /\ execOut.ran
    /\ execIn.language = "ruby"
    /\ execIn.outcome = "raised"
    /\ execOut.result.exit_code = 1

\* A run that finished: exec_code returns its output.
Finished ==
    /\ Returned
    /\ lower(execIn.language) \in LANGUAGE_COMMANDS
    /\ execIn.outcome = "finished"

EndsWith(s, suf) ==
    /\ Len(s) >= Len(suf)
    /\ SubSeq(s, Len(s) - Len(suf) + 1, Len(s)) = suf

FileOpEnds(h) == hs[h].pc = "fileop" /\ hs'[h].pc = "none"

C19_ResetEmpties ==
    resetOut.ran
        => /\ ~resetOut.raised
           /\ resetOut.entries = {}
           /\ resetOut.listing = {Dot, DotDot}

\* C19 amended: reset_workspace never raises; when its exec returned and rm
\* could delete every entry, the workspace has no entries, hidden ones
\* included, and its listing shows only . and ..; otherwise exactly the entries
\* that could not be deleted are left.
C19_ResetIsBestEffort ==
    resetOut.ran
        => /\ ~resetOut.raised
           /\ (resetIn.outcome = "returned" /\ resetIn.entries \cap resetIn.stuck = {})
                 => /\ resetOut.entries = {}
                    /\ resetOut.listing = {Dot, DotDot}
           /\ resetIn.outcome = "returned"
                 => resetOut.entries = resetIn.entries \cap resetIn.stuck
           /\ resetIn.outcome = "raised" => resetOut.entries = resetIn.entries

\* C19 witness: a workspace with a plain and a hidden entry was emptied.
C19_Witness ==
    /\ resetOut.ran
    /\ \E e \in resetIn.entries : e[1] = "."
    /\ \E e \in resetIn.entries : e[1] # "."
    /\ resetOut.entries = {}
    /\ resetOut.listing = {Dot, DotDot}

\* The normalized form of a caller's path: a relative one is taken against
\* /workspace, then . and .. components are resolved.
Normalized(path) ==
    IF path # <<>> /\ path[1] = "/" THEN normpath(path)
    ELSE normpath(join(WorkspaceRoot, path))

\* A normalized path is /workspace or lies below it.
Under(path) ==
    \/ path = WorkspaceRoot
    \/ StartsWith(path, WorkspaceRoot \o <<"/">>)

\* C20: _safe_path rejects every input whose normalized form lies outside
\* /workspace, and accepts every input whose normalized form lies under
\* /workspace, returning that normalized form.
C20_RejectsOutside ==
    guardOut.ran
        => /\ guardOut.ok <=> Under(Normalized(guardIn))
           /\ guardOut.ok => guardOut.path = Normalized(guardIn)

\* C21: a read of the request context made while request r is handled returns
\* the graph_token, github_username and request_id bound from the headers of
\* r itself, whatever the other requests in flight were sent with and however
\* their tasks interleave with the task of r.
C21_ReadsOwnContext ==
    \A r \in Requests :
        reqs[r].read => reqs[r].seen = request_context(reqs[r].headers)

\* Two requests with different headers are in flight and one of them has read
\* its context.
C21_Witness ==
    \E r \in Requests, o \in Requests :
        /\ r # o
        /\ reqs[r].pc = "downstream" /\ reqs[r].read
        /\ reqs[o].pc = "downstream"
        /\ request_context(reqs[o].headers) # request_context(reqs[r].headers)

\* C22: once dispatch has ended for a request, whether call_next returned or
\* raised, the context variable of its task has the value it had before the
\* request, and a read of the request context outside any request yields the
\* empty mapping.
C22_ContextRestored ==
    /\ \A r \in Requests :
          reqs[r].pc = "none" => ctx[context_of(r)] = reqs[r].token
    /\ stray.ran => stray.value = {}

\* The context was read in the task of a request whose downstream call raised.
C22_Witness == stray.ran /\ stray.after = "raised"

\* C28: the full surface lists execute_code, the three sandbox file tools and
\* the third-party API tools, and runs a call of any of them; the restricted
\* surface lists the third-party API tools only, runs a call of any of them and
\* runs no call of execute_code or of a sandbox file tool.
C28_SurfacesExposeTools ==
    /\ served.method = "tools/list" /\ served.surface = "/mcp"
          => served.tools = Tools \cup ThirdParty
    /\ served.method = "tools/list" /\ served.surface = "/mcp-no-code-execute"
          => served.tools = ThirdParty
    /\ served.method = "tools/call"
          => served.found = (served.surface = "/mcp" \/ served.name \in ThirdParty)

\* The upstream request a route is to send for request a with the headers.
Forwarded(a, base_url, headers) ==
    /\ Len(proxyOut.sent) = 1
    /\ proxyOut.sent[1].method = a.method
    /\ proxyOut.sent[1].url = [base |-> base_url, path |-> a.path, query |-> a.query]
    /\ proxyOut.sent[1].content = (IF a.body = "" THEN None ELSE a.body)
    /\ headers \subseteq proxyOut.sent[1].headers

\* The response of the upstream is the response of the route.
Relayed(a) ==
    /\ proxyOut.raised = None
    /\ proxyOut.response =
          Response(a.upstream.content, a.upstream.status_code, a.upstream.content_type)

\* C23: a GET or POST to the Graph route with an X-Proxy-ID the KV store binds
\* to token T sends exactly one upstream request to <graph-base>/<path> with
\* the same method, query string and body and with Authorization: Bearer T,
\* and returns the status code, content-type and body of the upstream.
C23_GraphForwarded ==
    (/\ proxyOut.ran
     /\ proxyIn.route = "graph"
     /\ proxyIn.redis_up
     /\ Truthy(redis_get(proxyIn.proxy_id))
     /\ ~proxyIn.upstream.timeout)
    => /\ Forwarded(proxyIn, GRAPH_BASE_URL,
                    {<<"Authorization", <<"Bearer ", redis_get(proxyIn.proxy_id)>>>>})
       /\ Relayed(proxyIn)

C25_TimeoutIsGatewayError ==
    /\ proxyOut.ran
          => \A i \in DOMAIN proxyOut.sent : proxyOut.sent[i].timeout = DEFAULT_TIMEOUT
    /\ (proxyOut.ran /\ proxyOut.sent # <<>> /\ proxyIn.upstream.timeout)
          => /\ proxyOut.raised = None
             /\ proxyOut.response.status_code \in {502, 503, 504}

\* C26: a request to the GitHub route is forwarded without a KV lookup, with
\* the fixed accept header and, when a GitHub token is configured, with that
\* token; otherwise it is forwarded and relayed like a Graph request.
C26_GitHubForwarded ==
    (proxyOut.ran /\ proxyIn.route = "github" /\ ~proxyIn.upstream.timeout)
    => /\ proxyOut.lookups = <<>>
       /\ Forwarded(proxyIn, GITHUB_BASE_URL,
                    {<<"accept", <<"application/vnd.github.v3+json">>>>})
       /\ Relayed(proxyIn)
       /\ Truthy(proxyIn.github_token)
             => \E h \in proxyOut.sent[1].headers :
                   /\ lower(h[1]) = "authorization"
                   /\ h[2][Len(h[2])] = proxyIn.github_token

\* The non-empty tokens the request context holds, and those of the
\* environment.
InContext ==
    {v \in {tokenIn.ctx[i] : i \in DOMAIN tokenIn.ctx}
           \cup {get(tokenIn.middleware, "graph_token")} : IsStr(v) /\ v # ""}
InEnvironment ==
    {v \in {tokenIn.MICROSOFT_GRAPH_TOKEN, tokenIn.GRAPH_TOKEN} : Truthy(v)}

C29_FailuresAreMarked ==
    (Returned /\ execOut.result.exit_code # 0)
    => /\ \E prefix \in {"Error", "Traceback", "Exception"} :
             startswith(join_parts(execOut.response), prefix)
       /\ execOut.is_error

\* C30: release(h) only appends h to the idle queue: the step of a call that
\* gives its container back leaves the owned list alone and empties no
\* workspace, and changes no workspace at all when the call was execute_code;
\* the recovery from an exec timeout (the kill, then the release) resets no
\* workspace either.
C30_ReleaseOnlyAppends ==
    [][\A h \in Callers :
          /\ (hs[h].held # NoHandle /\ hs'[h].held = NoHandle)
                => /\ queue' = Append(queue, hs[h].held)
                   /\ containers' = containers
                   /\ \A c \in Handles : files[c] # NoFile => files'[c] # NoFile
                   /\ hs[h].pc \in {"exec", "kill"} => files' = files
          /\ (hs[h].pc = "exec" /\ hs'[h].pc = "kill")
                => /\ queue' = queue
                   /\ containers' = containers
                   /\ files' = files]_vars

\* A call that timed out has given its container back to a pool whose
\* containers all hold a file, next to another idle container.
C30_Witness ==
    /\ hist = <<Entry("execute_code", "returned", "-1")>>
    /\ Len(queue) = PoolSize
    /\ \A c \in Handles : files[c] # NoFile

\* The step of task h is a file tool call that the path guard rejects: h had no
\* call in flight and has none after it, and the call is logged as a traversal.
RejectedCall(h) ==
    /\ life = "running"
    /\ hs[h].pc = "none"
    /\ hs' = Overlapped(h)
    /\ \E tool \in FileTools : hist' = <<Entry(tool, "raised", "traversal")>>

\* C31: a sandbox_read_file, sandbox_write_file or sandbox_list_files call whose
\* path the guard rejects fails before acquire(): it takes nothing out of the
\* idle queue, adds no waiter, touches no container and no file, starts no run
\* in a container, changes no task's handle and does not wait, also when every
\* container is held.
C31_RejectedCallTouchesNothing ==
    [][\A h \in Callers :
          RejectedCall(h)
             => /\ UNCHANGED <<client, queue, getters, containers, life, loopI,
                               stage, cstate, files>>
                /\ \A c \in Handles : lingering'[c] => lingering[c]
                /\ hs'[h] = Idle
                /\ \A o \in Callers : hs'[o].held = hs[o].held]_vars

\* C31 witness: a call was rejected while the other tasks held every container
\* of the pool: the idle queue is empty and nobody waits.
C31_Witness ==
    /\ life = "running"
    /\ \E tool \in FileTools : hist = <<Entry(tool, "raised", "traversal")>>
    /\ queue = <<>>
    /\ getters = <<>>
    /\ containers # <<>>
    /\ \A c \in Range(containers) : Holders(c) # {}
    /\ \E h \in Callers : hs[h] = Idle

\* What sandbox_read_file(path) on container c has to end with.
ReadEndsAs(c, path) ==
    IF IsDirectory(path)
    THEN Entry("sandbox_read_file", "raised", "is a directory")
    ELSE IF files[c] = NoFile \/ files[c].at # path
    THEN Entry("sandbox_read_file", "raised", "not found")
    ELSE Entry("sandbox_read_file", "returned", files[c].data)

\* C34: file_read raises a not-found error for a path that is absent in the
\* container and an is-a-directory error for a directory, and the handler
\* sandbox_read_file puts the container back in the idle queue in the step in
\* which the error leaves it.
C34_ReadErrorsRelease ==
    /\ [](\A c \in Range(containers), path \in Resolved :
             read_raises("sandbox_read_file", files, c, path)
                = IF ReadEndsAs(c, path).outcome = "raised"
                  THEN ReadEndsAs(c, path).data ELSE "-")
    /\ [][\A h \in Callers :
             (/\ FileOpEnds(h)
              /\ dropped' = "none"
              /\ hs[h].solo
              /\ cstate[hs[h].held] # "removed"
              /\ hist' # <<>>
              /\ hist'[1].tool = "sandbox_read_file")
                => /\ \E path \in Resolved : hist'[1] = ReadEndsAs(hs[h].held, path)
                   /\ hs'[h] = Idle
                   /\ queue' = Append(queue, hs[h].held)]_vars

\* C34 witness: a read of the workspace directory, made alone on a container
\* that holds a file, ended by the is-a-directory error, and the idle queue is
\* full again.
C34_Witness ==
    /\ life = "running"
    /\ Quiescent
    /\ hist = <<Entry("sandbox_read_file", "raised", "is a directory")>>
    /\ \E c \in Range(containers) : files[c] # NoFile
    /\ Len(queue) = PoolSize

\* The lines of a text: the pieces between its line feeds.
RECURSIVE LinesFrom(_, _, _)
LinesFrom(text, i, cur) ==
    IF i > Len(text) THEN <<cur>>
    ELSE IF text[i] = "\n" THEN <<cur>> \o LinesFrom(text, i + 1, <<>>)
    ELSE LinesFrom(text, i + 1, Append(cur, text[i]))

\* The text execute_code returned, line by line.
ResponseLines == LinesFrom(join_parts(execOut.response), 1, <<>>)

\* The lines of the returned text that are the given line.
LinesThatAre(line) == {i \in 1..Len(ResponseLines) : ResponseLines[i] = line}

ExitCodeLine == <<"[exit_code]", " ", ToString(execOut.result.exit_code)>>
NoteLine == <<"[note]", " ", "Output was truncated due to size limits.">>

\* "\n".join(lines)
RECURSIVE JoinWith(_)
JoinWith(lines) ==
    IF lines = <<>> THEN <<>>
    ELSE IF Len(lines) = 1 THEN lines[1]
    ELSE lines[1] \o <<"\n">> \o JoinWith(Tail(lines))

\* The lines from line i + 1 up to the next line of a section, joined again.
BodyAfter(i, next) ==
    JoinWith(SubSeq(ResponseLines, i + 1, next - 1))

\* C33: the text execute_code returns has the line "[exit_code] N" with N the
\* exit code of the result, once; a [stdout] section followed by the stdout of
\* the result exactly when stdout is not empty, a [stderr] section likewise,
\* and the [note] line exactly when the result is truncated; and the sections
\* come in the order stdout, stderr, exit_code, note.
C33_ResponseSections ==
    Returned =>
       LET out == LinesThatAre(<<"[stdout]">>)
           err == LinesThatAre(<<"[stderr]">>)
           code == LinesThatAre(ExitCodeLine)
           note == LinesThatAre(NoteLine)
       IN  /\ Cardinality(code) = 1
           /\ Cardinality(out) = IF execOut.result.stdout # <<>> THEN 1 ELSE 0
           /\ Cardinality(err) = IF execOut.result.stderr # <<>> THEN 1 ELSE 0
           /\ Cardinality(note) = IF execOut.result.truncated THEN 1 ELSE 0
           /\ \A i \in out, j \in err \cup code \cup note : i < j
           /\ \A i \in err, j \in code \cup note : i < j
           /\ \A i \in code, j \in note : i < j
           /\ \A i \in out, j \in err \cup code :
                  (\A k \in err : j <= k) => BodyAfter(i, j) = execOut.result.stdout
           /\ \A i \in err, j \in code : BodyAfter(i, j) = execOut.result.stderr

\* C33 witness: a run that wrote to stderr only, more than the cap, returned a
\* text with the stderr section and the note and without a stdout section.
C33_Witness ==
    /\ Returned
    /\ execOut.result.stdout = <<>>
    /\ execOut.result.stderr # <<>>
    /\ execOut.result.truncated
    /\ LinesThatAre(<<"[stdout]">>) = {}
    /\ LinesThatAre(<<"[stderr]">>) # {}
    /\ LinesThatAre(NoteLine) # {}

\* The token of an authorization header with the Bearer scheme, "" without.
BearerOf(authorization) ==
    IF authorization # <<>> /\ authorization[1] \in {"Bearer ", "bearer "}
    THEN strip(authorization[2]) ELSE ""

\* C32: the middleware binds graph_token to the first non-empty of
\* X-Microsoft-Graph-Token, X-Graph-Token and the token of an Authorization
\* header with the Bearer scheme in any case, and to None when all are absent or
\* empty; github_username and request_id are X-GitHub-Username and
\* X-Request-Id, or None.
C32_BindingPrecedence ==
    bindOut.ran =>
       LET bound == bindOut.request_context
           bearer == BearerOf(bindIn.authorization)
       IN  /\ {p[1] : p \in bound} = {"graph_token", "github_username", "request_id"}
           /\ Cardinality(bound) = 3
           /\ get(bound, "graph_token")
                 = IF bindIn.x_microsoft_graph_token \notin {None, ""}
                   THEN bindIn.x_microsoft_graph_token
                   ELSE IF bindIn.x_graph_token \notin {None, ""}
                   THEN bindIn.x_graph_token
                   ELSE IF bearer # "" THEN bearer ELSE None
           /\ get(bound, "github_username")
                 = IF bindIn.x_github_username = "" THEN None
                   ELSE bindIn.x_github_username
           /\ get(bound, "request_id")
                 = IF bindIn.x_request_id = "" THEN None ELSE bindIn.x_request_id

\* C32 witness: a request with an empty X-Graph-Token and a lower-case bearer
\* scheme was bound to the bearer token, without the blanks around it.
C32_Witness ==
    /\ bindOut.ran
    /\ bindIn.x_microsoft_graph_token = None
    /\ bindIn.x_graph_token = ""
    /\ bindIn.authorization = <<"bearer ", " b1 ">>
    /\ get(bindOut.request_context, "graph_token") = "b1"

\* C36: run_agent called with use_code_exec_agent = False never runs the agent
\* bound to the surface with code execution and the sandbox file tools: each of
\* its runs, the retry after a tool error included, is a run of the agent of
\* the restricted surface; and it makes at most one retry.
C36_RestrictedStaysRestricted ==
    /\ Len(agentOut.runs) <= 2
    /\ ~agentIn.use_code_exec_agent
          => \A i \in 1..Len(agentOut.runs) :
                /\ agentOut.runs[i] = concrete_tool_agent
                /\ "execute_code" \notin app(agentOut.runs[i].toolsets)

\* The pages a call was answered with, as far as it has been answered.
Answered ==
    IF pagesOut.pc = "awaiting" THEN Len(pagesOut.sent) - 1 ELSE Len(pagesOut.sent)

\* The items that are objects of the "value" lists of the first n answers.
RECURSIVE ItemsOf(_)
ItemsOf(n) ==
    IF n = 0 THEN <<>>
    ELSE ItemsOf(n - 1)
         \o (IF pagesIn.answers[n].kind = "dict" /\ pagesIn.answers[n].is_list
             THEN SelectSeq(pagesIn.answers[n].value, LAMBDA item : item # "7")
             ELSE <<>>)

\* The answer is an object that carries a next link.
HasNext(n) ==
    /\ pagesIn.answers[n].kind = "dict"
    /\ pagesIn.answers[n].nextLink \notin {None, ""}

\* C37: collect_paginated_values always terminates, after at most max_pages
\* requests: it sends a further request only after an object that carries a
\* next link, it sends the caller's query parameters with the first request
\* and none with the later ones, and it returns the items of the pages it read,
\* in page order.
C37_PaginationEnds ==
    /\ <>(pagesOut.pc \in {"returned", "raised"})
    /\ [](/\ Len(pagesOut.sent) <= pagesIn.max_pages
          /\ \A n \in 1..(Len(pagesOut.sent) - 1) : HasNext(n)
          /\ \A n \in 1..Len(pagesOut.sent) :
                pagesOut.sent[n].params = IF n = 1 THEN pagesIn.params ELSE None
          /\ pagesOut.pc = "returned"
                => /\ pagesOut.results = ItemsOf(Len(pagesOut.sent))
                   /\ \/ Len(pagesOut.sent) = pagesIn.max_pages
                      \/ ~HasNext(Len(pagesOut.sent)))

\* C37 witness: a call with query parameters and max_pages 2 returned the items
\* of two pages, the second of which carried a next link that was not followed.
C37_Witness ==
    /\ pagesOut.pc = "returned"
    /\ pagesIn.params # None
    /\ pagesIn.max_pages = 2
    /\ Len(pagesOut.sent) = 2
    /\ HasNext(2)
    /\ pagesIn.answers[1].value # <<>>
    /\ pagesIn.answers[2].value # <<>>
    /\ Len(pagesOut.results) = 2

\* The step gives caller o a container.
Obtains(o) == hs[o].held = NoHandle /\ hs'[o].held # NoHandle

\* The idle queue and the waiters are queues: a caller is given the container
\* at the head of the idle queue, the queue changes only at its two ends, a
\* caller that starts to wait joins the waiters at the end, and a release wakes
\* the waiter at the head.
TwoQueues ==
    \A o \in Callers :
       /\ Obtains(o) => /\ queue # <<>>
                         /\ hs'[o].held = Head(queue)
                         /\ queue' = Tail(queue)
       /\ (life = "running" /\ life' = "running")
             => \/ queue' = queue
                \/ queue # <<>> /\ queue' = Tail(queue)
                \/ \E c \in Handles :
                      \/ queue' = Append(queue, c)
                      \/ queue # <<>> /\ queue' = Append(Tail(queue), c)
       /\ (hs[o].pc # "waiting" /\ hs'[o].pc = "waiting")
             => getters' = Append(getters, o)
       /\ (hs[o].pc = "waiting" /\ hs'[o].pc = "woken")
             => o = Head(getters) /\ getters' = Tail(getters)

====
